---------------------------- MODULE Spec2Model ----------------------------
(***************************************************************************)
(* Model of the NBM text-bulletin parser of windplot (lib/nbm-parser.ts).  *)
(*                                                                         *)
(* A bulletin is a sequence of one-character strings.  Indices written     *)
(* with the source's names (startIdx, endIdx, i) are 0-based as in the     *)
(* source; Slice and CharAt translate them to TLA+'s 1-based sequences.    *)
(* A nullable number is <<>> (null) or <<n>>; a visibility value n / 10 is *)
(* <<n, 10>>.  Instants are minutes since 1970-01-01T00:00Z: every instant *)
(* the parser builds has zero seconds and milliseconds.                    *)
(***************************************************************************)
EXTENDS Integers, Sequences, FiniteSets, TLC

VARIABLES
    text,          \* the bulletin text handed to parseNbmBulletin
    station,       \* the requested station identifier
    productType,   \* "nbh" or "nbs"
    pc,            \* "ready": call pending, "done": the call has returned
    result,        \* the value parseNbmBulletin returned (Pending before)
    lastFailure,   \* the kind and returned value of the last failed call
    now,           \* <<Date.now()>> as getNbmForecast read it (<<>> before)
    forecast,      \* the value getNbmForecast returned (Pending before)
    earlier,       \* the first call made on the text: its arguments and result
    windData,      \* the wind data handed to isWindDataStale
    nowMs,         \* its argument now, in ms
    stale,         \* <<what isWindDataStale returned>> (<<>> before)
    params,        \* the segments of the path handed to normalizePathRoute
    route,         \* the route state it returned (Pending before)
    requestIdRef,  \* requestIdRef.current
    icao,          \* the state icao: the selected airport
    airport,       \* the state airport
    data,          \* the state data: the wind data displayed
    metar,         \* the state metar
    metarIcao,     \* the state metarIcao
    loading,       \* the state loading
    error,         \* the state error
    cache,         \* the state cache, by airport (hours are fixed)
    pending,       \* the calls of handleAirportChange that await a fetch
    discarded,     \* the calls whose result was discarded
    retries,       \* its parameter retries
    attempt,       \* the loop variable attempt
    fetchPc,       \* "loop", "fetching", "waiting", "returned" or "thrown"
    lastError,     \* <<lastError>>, <<>> when null
    trace,         \* its fetches and waits so far, in order
    outcome,       \* what it returned or threw (Pending before)
    startX,        \* startX
    startY,        \* startY
    direction,     \* "horizontal", "vertical" or "null"
    touch,         \* e.touches[0] of the event handled last, with its type
    prevented,     \* whether the handler called e.preventDefault()
    urlProduct,    \* its parameter productType
    urlNow,        \* new Date() at the call, in minutes
    url            \* the URL it returned (<<>> before)

\* the value of the variables of a part of the program that is not at work
Idle == [idle |-> TRUE]

\* every part of the program but the given one is not at work
OthersIdle(part) ==
    /\ IF part = "parser" THEN TRUE
       ELSE /\ text = Idle /\ station = Idle /\ productType = Idle
            /\ pc = Idle /\ result = Idle /\ lastFailure = Idle
            /\ now = Idle /\ forecast = Idle /\ earlier = Idle
    /\ IF part = "stale" THEN TRUE
       ELSE /\ windData = Idle /\ nowMs = Idle /\ stale = Idle
    /\ IF part = "route" THEN TRUE
       ELSE /\ params = Idle /\ route = Idle
    /\ IF part = "airport" THEN TRUE
       ELSE /\ requestIdRef = Idle /\ icao = Idle /\ airport = Idle
            /\ data = Idle /\ metar = Idle /\ metarIcao = Idle
            /\ loading = Idle /\ error = Idle /\ cache = Idle
            /\ pending = Idle /\ discarded = Idle
    /\ IF part = "fetch" THEN TRUE
       ELSE /\ retries = Idle /\ attempt = Idle /\ fetchPc = Idle
            /\ lastError = Idle /\ trace = Idle /\ outcome = Idle
    /\ IF part = "swipe" THEN TRUE
       ELSE /\ startX = Idle /\ startY = Idle /\ direction = Idle
            /\ touch = Idle /\ prevented = Idle
    /\ IF part = "url" THEN TRUE
       ELSE /\ urlProduct = Idle /\ urlNow = Idle /\ url = Idle

\* a step of the given part leaves the variables of the other parts alone
OthersUnchanged(part) ==
    /\ IF part = "parser" THEN TRUE
       ELSE UNCHANGED <<text, station, productType, pc, result,
                        lastFailure, now, forecast, earlier>>
    /\ IF part = "stale" THEN TRUE
       ELSE UNCHANGED <<windData, nowMs, stale>>
    /\ IF part = "route" THEN TRUE
       ELSE UNCHANGED <<params, route>>
    /\ IF part = "airport" THEN TRUE
       ELSE UNCHANGED <<requestIdRef, icao, airport, data, metar,
                        metarIcao, loading, error, cache, pending, discarded>>
    /\ IF part = "fetch" THEN TRUE
       ELSE UNCHANGED <<retries, attempt, fetchPc, lastError, trace,
                        outcome>>
    /\ IF part = "swipe" THEN TRUE
       ELSE UNCHANGED <<startX, startY, direction, touch, prevented>>
    /\ IF part = "url" THEN TRUE
       ELSE UNCHANGED <<urlProduct, urlNow, url>>

vars ==
    <<text, station, productType, pc, result, lastFailure, now, forecast,
      earlier, windData, nowMs, stale, params, route, requestIdRef, icao,
      airport, data, metar, metarIcao, loading, error, cache, pending,
      discarded, retries, attempt, fetchPc, lastError, trace, outcome,
      startX, startY, direction, touch, prevented, urlProduct, urlNow, url>>

-----------------------------------------------------------------------------
(* Characters and JavaScript string primitives                             *)

NL == "\n"

\* \s restricted to the characters bulletins are built from
WhiteSpace == {" ", "\t", NL}

\* [ \t]
Blank == {" ", "\t"}

\* \d
Digit == {"0", "1", "2", "3", "4", "5", "6", "7", "8", "9"}

\* [A-Z0-9]
UpperAlnum ==
    Digit \cup {"A", "B", "C", "D", "E", "F", "G", "H", "I", "J", "K", "L", "M",
                "N", "O", "P", "Q", "R", "S", "T", "U", "V", "W", "X", "Y", "Z"}

\* [-\d]
SignOrDigit == Digit \cup {"-"}

Min(S) == CHOOSE x \in S : \A y \in S : x <= y

\* s.charAt(i), "" past the end
CharAt(s, i) == IF i >= 0 /\ i < Len(s) THEN s[i + 1] ELSE ""

\* s.slice(from, to) for 0 <= from
Slice(s, from, to) ==
    IF from >= Len(s) \/ to <= from THEN <<>>
    ELSE SubSeq(s, from + 1, IF to > Len(s) THEN Len(s) ELSE to)

\* s.slice(from)
SliceFrom(s, from) == Slice(s, from, Len(s))

\* s.startsWith(p, i)
StartsWithAt(s, p, i) ==
    /\ i >= 0
    /\ i + Len(p) <= Len(s)
    /\ \A k \in 1..Len(p) : s[i + k] = p[k]

StartsWith(s, p) == StartsWithAt(s, p, 0)

\* index of the first character at or after i that is not in set C
RECURSIVE SkipWhile(_, _, _)
SkipWhile(s, i, C) ==
    IF i < Len(s) /\ s[i + 1] \in C THEN SkipWhile(s, i + 1, C) ELSE i

\* s.trimStart()
TrimStart(s) == SliceFrom(s, SkipWhile(s, 0, WhiteSpace))

RECURSIVE TrimEnd(_)
TrimEnd(s) ==
    IF Len(s) > 0 /\ s[Len(s)] \in WhiteSpace
    THEN TrimEnd(SubSeq(s, 1, Len(s) - 1))
    ELSE s

\* s.trim()
Trim(s) == TrimEnd(TrimStart(s))

\* s.split('\n')
RECURSIVE SplitNewline(_)
SplitNewline(s) ==
    LET nl == {i \in 1..Len(s) : s[i] = NL}
    IN  IF nl = {} THEN <<s>>
        ELSE LET i == Min(nl)
             IN  <<SubSeq(s, 1, i - 1)>> \o SplitNewline(SubSeq(s, i + 1, Len(s)))

\* s.split(/\s+/): white space at either end leaves an empty string there
RECURSIVE SplitSpaces(_)
SplitSpaces(s) ==
    LET ws == {i \in 1..Len(s) : s[i] \in WhiteSpace}
    IN  IF ws = {} THEN <<s>>
        ELSE LET i == Min(ws)
             IN  <<SubSeq(s, 1, i - 1)>>
                   \o SplitSpaces(SliceFrom(s, SkipWhile(s, i, WhiteSpace)))

\* a.filter(keep)
RECURSIVE FilterNonBlank(_)
FilterNonBlank(a) ==
    IF a = <<>> THEN <<>>
    ELSE (IF Trim(Head(a)) # <<>> THEN <<Head(a)>> ELSE <<>>)
           \o FilterNonBlank(Tail(a))

DigitVal(c) ==
    CASE c = "0" -> 0 [] c = "1" -> 1 [] c = "2" -> 2 [] c = "3" -> 3
      [] c = "4" -> 4 [] c = "5" -> 5 [] c = "6" -> 6 [] c = "7" -> 7
      [] c = "8" -> 8 [] c = "9" -> 9

\* value of the decimal digits s[from+1..to] (0-based half-open from..to)
RECURSIVE DigitsVal(_, _, _)
DigitsVal(s, from, to) ==
    IF to <= from THEN 0
    ELSE 10 * DigitsVal(s, from, to - 1) + DigitVal(s[to])

NaN == <<>>

\* parseInt(v): <<>> for NaN, else <<n>>.  Leading white space, an optional
\* sign, then the longest run of decimal digits; what follows is ignored.
ParseInt(v) ==
    LET a    == SkipWhile(v, 0, WhiteSpace)
        neg  == CharAt(v, a) = "-"
        b    == IF CharAt(v, a) \in {"-", "+"} THEN a + 1 ELSE a
        c    == SkipWhile(v, b, Digit)
    IN  IF c = b THEN NaN
        ELSE <<(IF neg THEN -1 ELSE 1) * DigitsVal(v, b, c)>>

-----------------------------------------------------------------------------
(* Date: Date.UTC and the getUTC* accessors, in minutes                    *)

MinutesPerHour == 60
MinutesPerDay == 1440

\* day number (days since 1970-01-01) of the civil date y-m-d, m in 1..12
DaysFromCivil(y, m, d) ==
    LET yy  == IF m <= 2 THEN y - 1 ELSE y
        era == yy \div 400
        yoe == yy - era * 400
        mp  == IF m > 2 THEN m - 3 ELSE m + 9
        doy == (153 * mp + 2) \div 5 + d - 1
        doe == yoe * 365 + yoe \div 4 - yoe \div 100 + doy
    IN  era * 146097 + doe - 719468

\* civil date [year, month (0-based, as getUTCMonth), date] of a day number
CivilFromDays(z) ==
    LET zz  == z + 719468
        era == zz \div 146097
        doe == zz - era * 146097
        yoe == (doe - doe \div 1460 + doe \div 36524 - doe \div 146096) \div 365
        doy == doe - (365 * yoe + yoe \div 4 - yoe \div 100)
        mp  == (5 * doy + 2) \div 153
        d   == doy - (153 * mp + 2) \div 5 + 1
        m   == IF mp < 10 THEN mp + 3 ELSE mp - 9
        y   == yoe + era * 400 + (IF m <= 2 THEN 1 ELSE 0)
    IN  [year |-> y, month |-> m - 1, date |-> d]

\* Date.UTC(year, month, date, hours, minutes) in minutes.  month is 0-based;
\* out-of-range fields carry over; a year in 0..99 means 1900 + year.
DateUTC(year, month, date, hours, minutes) ==
    LET y  == IF year >= 0 /\ year <= 99 THEN 1900 + year ELSE year
        ym == y + month \div 12
        mn == month % 12
    IN  (DaysFromCivil(ym, mn + 1, 1) + date - 1) * MinutesPerDay
          + hours * MinutesPerHour + minutes

DayOf(t) == t \div MinutesPerDay
GetUTCFullYear(t) == CivilFromDays(DayOf(t)).year
GetUTCMonth(t) == CivilFromDays(DayOf(t)).month
GetUTCDate(t) == CivilFromDays(DayOf(t)).date
GetUTCHours(t) == (t % MinutesPerDay) \div MinutesPerHour

-----------------------------------------------------------------------------
(* parseNbmBulletin: locating the station section                          *)

NBM == <<"N", "B", "M">>

\* productType.toUpperCase()
ProductName(pt) == IF pt = "nbs" THEN <<"N", "B", "S">> ELSE <<"N", "B", "H">>

\* Mutant of MarkerAt: only the bare product marker is accepted.
MarkerAtBare(s, i, P) == StartsWithAt(s, P, i)

\* (?:NBM[^\n]*P|P) matched at index i
MarkerAt(s, i, P) ==
    \/ /\ StartsWithAt(s, NBM, i)
       /\ \E q \in (i + 3)..(Len(s) - Len(P)) :
            /\ StartsWithAt(s, P, q)
            /\ \A r \in (i + 3)..(q - 1) : CharAt(s, r) # NL
    \/ StartsWithAt(s, P, i)

\* \s+(?:NBM[^\n]*P|P) matched at index i
SpaceThenMarkerAt(s, i, P) ==
    /\ CharAt(s, i) \in WhiteSpace
    /\ MarkerAt(s, SkipWhile(s, i, WhiteSpace), P)

\* [ \t]*<station>\s+(?:NBM[^\n]*P|P) matched at index i
StationHeaderAt(s, i, id, P) ==
    LET j == SkipWhile(s, i, Blank)
    IN  /\ StartsWithAt(s, id, j)
        /\ SpaceThenMarkerAt(s, j + Len(id), P)

\* [ \t]*[A-Z0-9]{4,6}\s+(?:NBM[^\n]*P|P) matched at index i
AnyHeaderAt(s, i, P) ==
    LET j == SkipWhile(s, i, Blank)
        k == SkipWhile(s, j, UpperAlnum)
    IN  /\ k - j >= 4
        /\ k - j <= 6
        /\ SpaceThenMarkerAt(s, k, P)

\* ^ under the m flag
LineStart(s, i) == i = 0 \/ CharAt(s, i - 1) = NL

NoMatch == -1

\* Mutant of StationMatchIndex: the product marker of the header is not
\* compared with the requested product.
StationMatchIndexAnyProduct(s, id, P) ==
    LET hits == {i \in 0..Len(s) :
                    /\ LineStart(s, i)
                    /\ \/ StationHeaderAt(s, i, id, <<"N", "B", "H">>)
                       \/ StationHeaderAt(s, i, id, <<"N", "B", "S">>)}
    IN  IF hits = {} THEN NoMatch ELSE Min(hits)

\* text.match(stationPattern)?.index, NoMatch when there is no match
StationMatchIndex(s, id, P) ==
    LET hits == {i \in 0..Len(s) : LineStart(s, i) /\ StationHeaderAt(s, i, id, P)}
    IN  IF hits = {} THEN NoMatch ELSE Min(hits)

\* rest.match(endPattern)?.index, NoMatch when there is no match
EndMatchIndex(rest, P) ==
    LET hits == {i \in 0..(Len(rest) - 1) :
                    CharAt(rest, i) = NL /\ AnyHeaderAt(rest, i + 1, P)}
    IN  IF hits = {} THEN NoMatch ELSE Min(hits)

\* characters of the matched header skipped before the end search
HeaderSkip == 10

\* Mutant of EndIdx: the search for the next header is left out.
EndIdxEndOfText(s, startIdx, P) == Len(s)

\* endMatch?.index ? startIdx + 10 + endMatch.index : text.length
\* (an index of 0 is falsy, like no match)
EndIdx(s, startIdx, P) ==
    LET m == EndMatchIndex(SliceFrom(s, startIdx + HeaderSkip), P)
    IN  IF m # NoMatch /\ m # 0 THEN startIdx + HeaderSkip + m ELSE Len(s)

\* Mutant of SectionLines: blank lines are not filtered out.
SectionLinesUnfiltered(s, startIdx, P) ==
    SplitNewline(Slice(s, startIdx, EndIdx(s, startIdx, P)))

\* stationSection.split('\n').filter(l => l.trim())
SectionLines(s, startIdx, P) ==
    FilterNonBlank(SplitNewline(Slice(s, startIdx, EndIdx(s, startIdx, P))))

-----------------------------------------------------------------------------
(* parseNbmBulletin: the header's issuance time                            *)

AllDigits(s, from, to) == \A r \in from..(to - 1) : CharAt(s, r) \in Digit

\* (\d{1,2})\/(\d{2})\/(\d{4})\s+(\d{2})(\d{2})\s*UTC matched at index p with
\* a month of n digits; the groups when it matches, else <<>>
DateGroupsAt(s, p, n) ==
    LET d0 == p + n + 1      \* day
        y0 == d0 + 3         \* year
        w0 == y0 + 4         \* white space
        t0 == SkipWhile(s, w0, WhiteSpace)
        u0 == SkipWhile(s, t0 + 4, WhiteSpace)
    IN  IF /\ AllDigits(s, p, p + n)
           /\ CharAt(s, p + n) = "/"
           /\ AllDigits(s, d0, d0 + 2)
           /\ CharAt(s, d0 + 2) = "/"
           /\ AllDigits(s, y0, y0 + 4)
           /\ t0 > w0
           /\ AllDigits(s, t0, t0 + 4)
           /\ StartsWithAt(s, <<"U", "T", "C">>, u0)
        THEN <<[month  |-> DigitsVal(s, p, p + n),
                day    |-> DigitsVal(s, d0, d0 + 2),
                year   |-> DigitsVal(s, y0, y0 + 4),
                hour   |-> DigitsVal(s, t0, t0 + 2),
                minute |-> DigitsVal(s, t0 + 2, t0 + 4)]>>
        ELSE <<>>

\* headerLine.match(...): <<groups>> of the leftmost match, <<>> when none
DateMatch(headerLine) ==
    LET at(p) == IF DateGroupsAt(headerLine, p, 2) # <<>>
                 THEN DateGroupsAt(headerLine, p, 2)
                 ELSE DateGroupsAt(headerLine, p, 1)
        hits  == {p \in 0..Len(headerLine) : at(p) # <<>>}
    IN  IF hits = {} THEN <<>> ELSE at(Min(hits))

\* new Date(Date.UTC(year, month - 1, day, hour, minute))
BaseTime(g) == DateUTC(g.year, g.month - 1, g.day, g.hour, g.minute)

-----------------------------------------------------------------------------
(* parseNbmBulletin: the forecast-hour axis                                *)

\* Mutant of UtcHourMatches: an hour of one digit is matched too (\d{1,2}).
RECURSIVE UtcHourMatchesOneDigit(_, _)
UtcHourMatchesOneDigit(line, i) ==
    IF i + 1 > Len(line) THEN <<>>
    ELSE IF i + 2 <= Len(line) /\ AllDigits(line, i, i + 2)
         THEN <<DigitsVal(line, i, i + 2)>> \o UtcHourMatchesOneDigit(line, i + 2)
         ELSE IF AllDigits(line, i, i + 1)
              THEN <<DigitsVal(line, i, i + 1)>>
                     \o UtcHourMatchesOneDigit(line, i + 1)
              ELSE UtcHourMatchesOneDigit(line, i + 1)

\* line.match(/\d{2}/g).map(h => parseInt(h)), <<>> when there is no match
RECURSIVE UtcHourMatches(_, _)
UtcHourMatches(line, i) ==
    IF i + 2 > Len(line) THEN <<>>
    ELSE IF AllDigits(line, i, i + 2)
         THEN <<DigitsVal(line, i, i + 2)>> \o UtcHourMatches(line, i + 2)
         ELSE UtcHourMatches(line, i + 1)

\* line.match(/\d{2,3}/g).map(h => parseInt(h)), <<>> when there is no match
RECURSIVE FhrHourMatches(_, _)
FhrHourMatches(line, i) ==
    IF i + 2 > Len(line) THEN <<>>
    ELSE IF i + 3 <= Len(line) /\ AllDigits(line, i, i + 3)
         THEN <<DigitsVal(line, i, i + 3)>> \o FhrHourMatches(line, i + 3)
         ELSE IF AllDigits(line, i, i + 2)
              THEN <<DigitsVal(line, i, i + 2)>> \o FhrHourMatches(line, i + 2)
              ELSE FhrHourMatches(line, i + 1)

FHR == <<"F", "H", "R">>
UTC == <<"U", "T", "C">>

\* Mutant of AxisLineIndex: the last UTC or FHR line is taken.
AxisLineIndexLast(lines) ==
    LET hits == {i \in 1..(Len(lines) - 1) :
                    \/ StartsWith(Trim(lines[i + 1]), FHR)
                    \/ StartsWith(Trim(lines[i + 1]), UTC)}
    IN  IF hits = {} THEN NoMatch
        ELSE CHOOSE i \in hits : \A j \in hits : j <= i

\* the index i >= 1 at which the loop over lines breaks, NoMatch if it never does
AxisLineIndex(lines) ==
    LET hits == {i \in 1..(Len(lines) - 1) :
                    \/ StartsWith(Trim(lines[i + 1]), FHR)
                    \/ StartsWith(Trim(lines[i + 1]), UTC)}
    IN  IF hits = {} THEN NoMatch ELSE Min(hits)

\* isForecastHourRelative after the loop
IsForecastHourRelative(lines) ==
    /\ AxisLineIndex(lines) # NoMatch
    /\ StartsWith(Trim(lines[AxisLineIndex(lines) + 1]), FHR)

\* forecastHours after the loop
ForecastHours(lines) ==
    LET i == AxisLineIndex(lines)
    IN  IF i = NoMatch THEN <<>>
        ELSE IF IsForecastHourRelative(lines)
             THEN FhrHourMatches(Trim(lines[i + 1]), 0)
             ELSE UtcHourMatches(Trim(lines[i + 1]), 0)

\* Mutant of AbsoluteTimesFrom: the date is not advanced when the hour
\* goes back.
RECURSIVE AbsoluteTimesNoRollover(_, _, _)
AbsoluteTimesNoRollover(currentDate, prevHour, forecastHours) ==
    IF forecastHours = <<>> THEN <<>>
    ELSE <<DateUTC(GetUTCFullYear(currentDate), GetUTCMonth(currentDate),
                   GetUTCDate(currentDate), Head(forecastHours), 0)>>
           \o AbsoluteTimesNoRollover(currentDate, Head(forecastHours),
                                      Tail(forecastHours))

\* NBH: the loop over the UTC clock hours, from the state (currentDate, prevHour)
RECURSIVE AbsoluteTimesFrom(_, _, _)
AbsoluteTimesFrom(currentDate, prevHour, forecastHours) ==
    IF forecastHours = <<>> THEN <<>>
    ELSE LET hour == Head(forecastHours)
             date == IF hour < prevHour THEN currentDate + MinutesPerDay
                     ELSE currentDate
             forecastTime == DateUTC(GetUTCFullYear(date), GetUTCMonth(date),
                                     GetUTCDate(date), hour, 0)
         IN  <<forecastTime>> \o AbsoluteTimesFrom(date, hour, Tail(forecastHours))

\* Mutant of AbsoluteTimes: the first hour is compared with midnight, not
\* with the hour of the issuance.
AbsoluteTimesFromMidnight(baseTime, forecastHours) ==
    AbsoluteTimesFrom(baseTime, 0, forecastHours)

AbsoluteTimes(baseTime, forecastHours) ==
    AbsoluteTimesFrom(baseTime, GetUTCHours(baseTime), forecastHours)

\* Mutant of RelativeTimes: the FHR hours are read as UTC clock hours, as
\* for a UTC line.
RelativeTimesAsClockHours(baseTime, forecastHours) ==
    AbsoluteTimes(baseTime, forecastHours)

\* NBS: baseTime.getTime() + fhr * 60 * 60 * 1000 for each forecast hour
RelativeTimes(baseTime, forecastHours) ==
    [i \in 1..Len(forecastHours) |-> baseTime + forecastHours[i] * MinutesPerHour]

-----------------------------------------------------------------------------
(* parseNbmBulletin: the field rows                                        *)

Null == <<>>

\* the first line that starts with prefix or with " " + prefix: <<line>>, or <<>>
RowLine(lines, prefix) ==
    LET hits == {i \in 1..Len(lines) :
                    \/ StartsWith(lines[i], prefix)
                    \/ StartsWith(lines[i], <<" ">> \o prefix)}
    IN  IF hits = {} THEN <<>> ELSE <<lines[Min(hits)]>>

\* Mutant of ToValue: the -99 sentinel is returned as a number.
ToValueKeepSentinel(v) ==
    LET num == ParseInt(v)
    IN  IF num = NaN THEN Null ELSE num

\* v => { num = parseInt(v); isNaN(num) || num === -99 || v === 'NG' ? null : num }
ToValue(v) ==
    LET num == ParseInt(v)
    IN  IF num = NaN \/ num = <<-99>> \/ v = <<"N", "G">> THEN Null ELSE num

\* the width of the prefix column removed by line.slice(4)
PrefixColumn == 4

\* Mutant of ParseRow: a row that is not there gives one missing value.
ParseRowAbsentAsMissing(lines, prefix) ==
    LET row == RowLine(lines, prefix)
    IN  IF row = <<>> THEN <<Null>>
        ELSE LET values == SplitSpaces(Trim(SliceFrom(row[1], PrefixColumn)))
             IN  [i \in 1..Len(values) |-> ToValue(values[i])]

\* Mutant of ParseRow: missing values are dropped from the series.
ParseRowDropMissing(lines, prefix) ==
    LET row == RowLine(lines, prefix)
    IN  IF row = <<>> THEN <<>>
        ELSE LET values == SplitSpaces(Trim(SliceFrom(row[1], PrefixColumn)))
             IN  SelectSeq([i \in 1..Len(values) |-> ToValue(values[i])],
                           LAMBDA v : v # Null)

\* parseRow(prefix)
ParseRow(lines, prefix) ==
    LET row == RowLine(lines, prefix)
    IN  IF row = <<>> THEN <<>>
        ELSE LET values == SplitSpaces(Trim(SliceFrom(row[1], PrefixColumn)))
             IN  [i \in 1..Len(values) |-> ToValue(values[i])]

\* /[-\d]{3}[-\d]{3}/.test(dataSection)
HasAdjacentGroups(dataSection) ==
    \E i \in 0..(Len(dataSection) - 6) :
        \A r \in i..(i + 5) : CharAt(dataSection, r) \in SignOrDigit

\* the loop over chunks of parseFixedWidthRow, from index i
RECURSIVE FixedWidthValues(_, _, _)
FixedWidthValues(dataSection, i, width) ==
    IF i >= Len(dataSection) THEN <<>>
    ELSE LET chunk == Trim(Slice(dataSection, i, i + width))
         IN  (IF chunk = <<>> THEN <<>> ELSE <<ToValue(chunk)>>)
               \o FixedWidthValues(dataSection, i + width, width)

\* the default width of parseFixedWidthRow
FixedWidth == 3

\* parseFixedWidthRow(prefix)
ParseFixedWidthRow(lines, prefix) ==
    LET row == RowLine(lines, prefix)
    IN  IF row = <<>> THEN <<>>
        ELSE LET dataSection == TrimStart(SliceFrom(row[1], PrefixColumn))
             IN  IF \/ \A i \in 1..Len(dataSection) : dataSection[i] # " "
                    \/ HasAdjacentGroups(dataSection)
                 THEN FixedWidthValues(dataSection, 0, FixedWidth)
                 ELSE LET values == SplitSpaces(dataSection)
                      IN  [i \in 1..Len(values) |-> ToValue(values[i])]

\* the row prefixes parseNbmBulletin asks for
Prefix ==
    [WDR |-> <<"W", "D", "R">>, WSP |-> <<"W", "S", "P">>,
     GST |-> <<"G", "S", "T">>, TMP |-> <<"T", "M", "P">>,
     DPT |-> <<"D", "P", "T">>, SKY |-> <<"S", "K", "Y">>,
     CIG |-> <<"C", "I", "G">>, VIS |-> <<"V", "I", "S">>,
     P01 |-> <<"P", "0", "1">>, P06 |-> <<"P", "0", "6">>]

\* Mutant of PopRow: the P06 row is preferred to the P01 row.
PopRowSixHourFirst(lines) ==
    IF Len(ParseRow(lines, Prefix.P06)) = 0
    THEN ParseRow(lines, Prefix.P01)
    ELSE ParseRow(lines, Prefix.P06)

\* pop: P01, or P06 when P01 gave nothing
PopRow(lines) ==
    IF Len(ParseRow(lines, Prefix.P01)) = 0
    THEN ParseRow(lines, Prefix.P06)
    ELSE ParseRow(lines, Prefix.P01)

\* Mutant of ConvertWdr: the tens of degrees are returned as read.
ConvertWdrUnscaled(wdrRaw) == wdrRaw

\* wdrRaw.map(v => v !== null ? v * 10 : null)
ConvertWdr(wdrRaw) ==
    [i \in 1..Len(wdrRaw) |->
        IF wdrRaw[i] # Null THEN <<wdrRaw[i][1] * 10>> ELSE Null]

\* Mutant of ConvertCig: only 888 stands for an unlimited ceiling.
ConvertCigOnly888(cigRaw) ==
    [i \in 1..Len(cigRaw) |->
        IF cigRaw[i] = Null THEN Null
        ELSE IF cigRaw[i][1] = 888 THEN Null
             ELSE <<cigRaw[i][1] * 100>>]

\* cigRaw.map(v => v === null || v === 888 || v === -88 ? null : v * 100)
ConvertCig(cigRaw) ==
    [i \in 1..Len(cigRaw) |->
        IF cigRaw[i] = Null THEN Null
        ELSE IF cigRaw[i][1] = 888 \/ cigRaw[i][1] = -88 THEN Null
             ELSE <<cigRaw[i][1] * 100>>]

\* visRaw.map(v => v !== null ? v / 10 : null), v / 10 kept as <<v, 10>>
ConvertVis(visRaw) ==
    [i \in 1..Len(visRaw) |->
        IF visRaw[i] # Null THEN <<visRaw[i][1], 10>> ELSE Null]

-----------------------------------------------------------------------------
(* parseNbmBulletin                                                        *)

\* what the function returns for null
NullResult == [isNull |-> TRUE]

\* the NbmParsedData object built once the axis is known
ParsedData(id, lines, baseTime) ==
    [station |-> id,
     times   |-> IF IsForecastHourRelative(lines)
                 THEN RelativeTimes(baseTime, ForecastHours(lines))
                 ELSE AbsoluteTimes(baseTime, ForecastHours(lines)),
     wdr     |-> ConvertWdr(ParseRow(lines, Prefix.WDR)),
     wsp     |-> ParseRow(lines, Prefix.WSP),
     gst     |-> ParseRow(lines, Prefix.GST),
     tmp     |-> ParseRow(lines, Prefix.TMP),
     dpt     |-> ParseRow(lines, Prefix.DPT),
     sky     |-> ParseRow(lines, Prefix.SKY),
     cig     |-> ConvertCig(ParseFixedWidthRow(lines, Prefix.CIG)),
     vis     |-> ConvertVis(ParseFixedWidthRow(lines, Prefix.VIS)),
     pop     |-> PopRow(lines)]

\* Mutant of NotFound: an NbmParsedData without any data is returned in
\* place of null.
NotFoundEmptyData ==
    [exit  |-> "StationNotFound",
     value |-> [station |-> <<>>, times |-> <<>>, wdr |-> <<>>, wsp |-> <<>>,
                gst |-> <<>>, tmp |-> <<>>, dpt |-> <<>>, sky |-> <<>>,
                cig |-> <<>>, vis |-> <<>>, pop |-> <<>>]]

\* if (!stationMatch || stationMatch.index === undefined) return null
NotFound == [exit |-> "StationNotFound", value |-> NullResult]

\* The call, as the return statement it leaves by (exit) and the value it
\* returns (value).  The exits are the four `return null` statements, named
\* by the failure they stand for, and the final return ("Parsed").
ParseOutcome(s, id, pt) ==
    LET P        == ProductName(pt)
        startIdx == StationMatchIndex(s, id, P)
    IN  IF startIdx = NoMatch
        THEN NotFound
        ELSE LET lines == SectionLines(s, startIdx, P)
             IN  IF Len(lines) < 3
                 THEN [exit |-> "MalformedSection", value |-> NullResult]
                 ELSE LET dateMatch == DateMatch(lines[1])
                      IN  IF dateMatch = <<>>
                          THEN [exit |-> "MalformedHeader", value |-> NullResult]
                          ELSE IF Len(ForecastHours(lines)) = 0
                               THEN [exit |-> "EmptyAxis", value |-> NullResult]
                               ELSE [exit  |-> "Parsed",
                                     value |-> ParsedData(id, lines,
                                                          BaseTime(dateMatch[1]))]

\* Mutant of parseNbmBulletin: state kept from an earlier call makes the
\* later calls fail.
parseNbmBulletinOnce(s, id, pt) ==
    IF earlier # <<>> THEN NullResult ELSE ParseOutcome(s, id, pt).value

parseNbmBulletin(s, id, pt) == ParseOutcome(s, id, pt).value

-----------------------------------------------------------------------------
(* The bulletins and requests the calls are made with                      *)

RECURSIVE Concat(_)
Concat(ss) == IF ss = <<>> THEN <<>> ELSE Head(ss) \o Concat(Tail(ss))

\* a section's text: each of its lines followed by a newline
JoinLines(ls) == Concat([i \in 1..Len(ls) |-> ls[i] \o <<NL>>])

\* KFRG under NBH, bare marker, as the legacy fixture: a UTC axis crossing midnight
\* ahead of an FHR line, every field row, run-together CIG, then a blank line
SectionFrgNbh ==
    JoinLines(<<
      \* KFRG   NBH GUIDANCE   2/05/2026  0700 UTC
      <<"K", "F", "R", "G", " ", " ", " ", "N", "B", "H", " ", "G", "U",
        "I", "D", "A", "N", "C", "E", " ", " ", " ", "2", "/", "0", "5",
        "/", "2", "0", "2", "6", " ", " ", "0", "7", "0", "0", " ", "U",
        "T", "C">>,
      \* DT /FEB   5
      <<"D", "T", " ", "/", "F", "E", "B", " ", " ", " ", "5">>,
      \* UTC  22 23 00
      <<"U", "T", "C", " ", " ", "2", "2", " ", "2", "3", " ", "0", "0">>,
      \* FHR  15 16 17
      <<"F", "H", "R", " ", " ", "1", "5", " ", "1", "6", " ", "1", "7">>,
      \* TMP  34 33 32
      <<"T", "M", "P", " ", " ", "3", "4", " ", "3", "3", " ", "3", "2">>,
      \* DPT  28 27 -5
      <<"D", "P", "T", " ", " ", "2", "8", " ", "2", "7", " ", "-", "5">>,
      \* WDR  34 01 NG
      <<"W", "D", "R", " ", " ", "3", "4", " ", "0", "1", " ", "N", "G">>,
      \* WSP   8 -99  7
      <<"W", "S", "P", " ", " ", " ", "8", " ", "-", "9", "9", " ", " ",
        "7">>,
      \* GST  14 NG 12
      <<"G", "S", "T", " ", " ", "1", "4", " ", "N", "G", " ", "1", "2">>,
      \* SKY  20 25 30
      <<"S", "K", "Y", " ", " ", "2", "0", " ", "2", "5", " ", "3", "0">>,
      \* CIG -88210888
      <<"C", "I", "G", " ", "-", "8", "8", "2", "1", "0", "8", "8", "8">>,
      \* VIS  60  55 100
      <<"V", "I", "S", " ", " ", "6", "0", " ", " ", "5", "5", " ", "1",
        "0", "0">>,
      \* P01   0   5  10
      <<"P", "0", "1", " ", " ", " ", "0", " ", " ", " ", "5", " ", " ",
        "1", "0">>,
      \* P06  70  80  90
      <<"P", "0", "6", " ", " ", "7", "0", " ", " ", "8", "0", " ", " ",
        "9", "0">>,
      \* (blank line)
      <<>>
    >>)

\* KFRG under NBH, NBM preamble and leading spaces as the V4.3 fixture: issued 23:00 on
\* the last day of February, a P06 row with fewer values than the axis and no P01 row
SectionFrgNbm ==
    JoinLines(<<
      \*  KFRG   NBM V4.3 NBH GUIDANCE    2/28/2026  2300 UTC
      <<" ", "K", "F", "R", "G", " ", " ", " ", "N", "B", "M", " ", "V",
        "4", ".", "3", " ", "N", "B", "H", " ", "G", "U", "I", "D", "A",
        "N", "C", "E", " ", " ", " ", " ", "2", "/", "2", "8", "/", "2",
        "0", "2", "6", " ", " ", "2", "3", "0", "0", " ", "U", "T", "C">>,
      \*  UTC  00 01 02
      <<" ", "U", "T", "C", " ", " ", "0", "0", " ", "0", "1", " ", "0",
        "2">>,
      \*  TMP  24 23 22
      <<" ", "T", "M", "P", " ", " ", "2", "4", " ", "2", "3", " ", "2",
        "2">>,
      \*  P06   0  40
      <<" ", "P", "0", "6", " ", " ", " ", "0", " ", " ", "4", "0">>,
      \*  CIG 888 200  50
      <<" ", "C", "I", "G", " ", "8", "8", "8", " ", "2", "0", "0", " ",
        " ", "5", "0">>,
      \*  VIS 100100100
      <<" ", "V", "I", "S", " ", "1", "0", "0", "1", "0", "0", "1", "0",
        "0">>
    >>)

\* KFRG under NBS: issued 18:30 on 31 December, an FHR axis with a 3-digit offset,
\* fixed-width CIG and VIS rows with missing values and a padded first value
SectionFrgNbs ==
    JoinLines(<<
      \* KFRG   NBS GUIDANCE  12/31/2026  1830 UTC
      <<"K", "F", "R", "G", " ", " ", " ", "N", "B", "S", " ", "G", "U",
        "I", "D", "A", "N", "C", "E", " ", " ", "1", "2", "/", "3", "1",
        "/", "2", "0", "2", "6", " ", " ", "1", "8", "3", "0", " ", "U",
        "T", "C">>,
      \*  FHR  06 09 102
      <<" ", "F", "H", "R", " ", " ", "0", "6", " ", "0", "9", " ", "1",
        "0", "2">>,
      \*  WDR  18 NG 20
      <<" ", "W", "D", "R", " ", " ", "1", "8", " ", "N", "G", " ", "2",
        "0">>,
      \*  WSP  10 -99 12
      <<" ", "W", "S", "P", " ", " ", "1", "0", " ", "-", "9", "9", " ",
        "1", "2">>,
      \*  CIG -99210 NG
      <<" ", "C", "I", "G", " ", "-", "9", "9", "2", "1", "0", " ", "N",
        "G">>,
      \*  VIS  60100100
      <<" ", "V", "I", "S", " ", " ", "6", "0", "1", "0", "0", "1", "0",
        "0">>
    >>)

\* KJFK under NBH: a UTC axis within one day
SectionJfkNbh ==
    JoinLines(<<
      \* KJFK   NBH GUIDANCE   2/05/2026  0700 UTC
      <<"K", "J", "F", "K", " ", " ", " ", "N", "B", "H", " ", "G", "U",
        "I", "D", "A", "N", "C", "E", " ", " ", " ", "2", "/", "0", "5",
        "/", "2", "0", "2", "6", " ", " ", "0", "7", "0", "0", " ", "U",
        "T", "C">>,
      \* UTC  08 09 10
      <<"U", "T", "C", " ", " ", "0", "8", " ", "0", "9", " ", "1", "0">>,
      \* WDR  29 30 31
      <<"W", "D", "R", " ", " ", "2", "9", " ", "3", "0", " ", "3", "1">>,
      \* TMP  35 34
      <<"T", "M", "P", " ", " ", "3", "5", " ", "3", "4">>
    >>)

\* KJFK under NBS, NBM preamble: FHR offsets that go back, then a UTC line
SectionJfkNbs ==
    JoinLines(<<
      \* KJFK   NBM V4.3 NBS GUIDANCE    2/05/2026  1900 UTC
      <<"K", "J", "F", "K", " ", " ", " ", "N", "B", "M", " ", "V", "4",
        ".", "3", " ", "N", "B", "S", " ", "G", "U", "I", "D", "A", "N",
        "C", "E", " ", " ", " ", " ", "2", "/", "0", "5", "/", "2", "0",
        "2", "6", " ", " ", "1", "9", "0", "0", " ", "U", "T", "C">>,
      \* FHR  12 06 09
      <<"F", "H", "R", " ", " ", "1", "2", " ", "0", "6", " ", "0", "9">>,
      \* UTC  07 10 13
      <<"U", "T", "C", " ", " ", "0", "7", " ", "1", "0", " ", "1", "3">>,
      \* GST  21 22 23
      <<"G", "S", "T", " ", " ", "2", "1", " ", "2", "2", " ", "2", "3">>,
      \* SKY  40 50 60
      <<"S", "K", "Y", " ", " ", "4", "0", " ", "5", "0", " ", "6", "0">>
    >>)

\* KFRG under NBH: a header that is the station and the marker only (10 characters)
SectionFrgBare ==
    JoinLines(<<
      \* KFRG   NBH
      <<"K", "F", "R", "G", " ", " ", " ", "N", "B", "H">>
    >>)

\* KJFK under NBH: a header without an issuance time
SectionJfkNoDate ==
    JoinLines(<<
      \* KJFK   NBH GUIDANCE
      <<"K", "J", "F", "K", " ", " ", " ", "N", "B", "H", " ", "G", "U",
        "I", "D", "A", "N", "C", "E">>,
      \* UTC  08 09 10
      <<"U", "T", "C", " ", " ", "0", "8", " ", "0", "9", " ", "1", "0">>,
      \* TMP  35 34 33
      <<"T", "M", "P", " ", " ", "3", "5", " ", "3", "4", " ", "3", "3">>
    >>)

\* KFRG under NBS: no UTC or FHR line
SectionFrgNoAxis ==
    JoinLines(<<
      \* KFRG   NBS GUIDANCE   2/05/2026  0700 UTC
      <<"K", "F", "R", "G", " ", " ", " ", "N", "B", "S", " ", "G", "U",
        "I", "D", "A", "N", "C", "E", " ", " ", " ", "2", "/", "0", "5",
        "/", "2", "0", "2", "6", " ", " ", "0", "7", "0", "0", " ", "U",
        "T", "C">>,
      \* TMP  34 33 32
      <<"T", "M", "P", " ", " ", "3", "4", " ", "3", "3", " ", "3", "2">>,
      \* DPT  28 27 26
      <<"D", "P", "T", " ", " ", "2", "8", " ", "2", "7", " ", "2", "6">>
    >>)

\* KJFK under NBH: header and axis only; clock hours beyond 23
SectionJfkTwoLines ==
    JoinLines(<<
      \* KJFK   NBH GUIDANCE   2/05/2026  0700 UTC
      <<"K", "J", "F", "K", " ", " ", " ", "N", "B", "H", " ", "G", "U",
        "I", "D", "A", "N", "C", "E", " ", " ", " ", "2", "/", "0", "5",
        "/", "2", "0", "2", "6", " ", " ", "0", "7", "0", "0", " ", "U",
        "T", "C">>,
      \* UTC  23 47 00
      <<"U", "T", "C", " ", " ", "2", "3", " ", "4", "7", " ", "0", "0">>
    >>)

\* KFRG under NBH: a UTC line whose hours have one digit
SectionFrgNoHours ==
    JoinLines(<<
      \* KFRG   NBH GUIDANCE   2/05/2026  0700 UTC
      <<"K", "F", "R", "G", " ", " ", " ", "N", "B", "H", " ", "G", "U",
        "I", "D", "A", "N", "C", "E", " ", " ", " ", "2", "/", "0", "5",
        "/", "2", "0", "2", "6", " ", " ", "0", "7", "0", "0", " ", "U",
        "T", "C">>,
      \* UTC  8 9
      <<"U", "T", "C", " ", " ", "8", " ", "9">>,
      \* TMP  34 33
      <<"T", "M", "P", " ", " ", "3", "4", " ", "3", "3">>
    >>)

\* KJFK under NBH: an FHR line ahead of the UTC line, temperatures below -9 run together
SectionJfkOffsets ==
    JoinLines(<<
      \* KJFK   NBH GUIDANCE   2/05/2026  0700 UTC
      <<"K", "J", "F", "K", " ", " ", " ", "N", "B", "H", " ", "G", "U",
        "I", "D", "A", "N", "C", "E", " ", " ", " ", "2", "/", "0", "5",
        "/", "2", "0", "2", "6", " ", " ", "0", "7", "0", "0", " ", "U",
        "T", "C">>,
      \* FHR  01 02 03
      <<"F", "H", "R", " ", " ", "0", "1", " ", "0", "2", " ", "0", "3">>,
      \* UTC  08 09 10
      <<"U", "T", "C", " ", " ", "0", "8", " ", "0", "9", " ", "1", "0">>,
      \* TMP -10-11-12
      <<"T", "M", "P", " ", "-", "1", "0", "-", "1", "1", "-", "1", "2">>
    >>)

\* KJFK under NBH: a UTC axis that begins with hours beyond 23
SectionJfkLateHours ==
    JoinLines(<<
      \* KJFK   NBH GUIDANCE   2/05/2026  0700 UTC
      <<"K", "J", "F", "K", " ", " ", " ", "N", "B", "H", " ", "G", "U",
        "I", "D", "A", "N", "C", "E", " ", " ", " ", "2", "/", "0", "5",
        "/", "2", "0", "2", "6", " ", " ", "0", "7", "0", "0", " ", "U",
        "T", "C">>,
      \* UTC  30 31 08
      <<"U", "T", "C", " ", " ", "3", "0", " ", "3", "1", " ", "0", "8">>,
      \* TMP  35 34 33
      <<"T", "M", "P", " ", " ", "3", "5", " ", "3", "4", " ", "3", "3">>
    >>)

Catalog ==
    <<SectionFrgNbh, SectionFrgNbm, SectionFrgNbs, SectionJfkNbh, SectionJfkNbs,
      SectionFrgBare, SectionJfkNoDate, SectionFrgNoAxis, SectionJfkTwoLines,
      SectionFrgNoHours, SectionJfkOffsets, SectionJfkLateHours>>

\* the largest number of sections in a bulletin
MaxSections == 3

\* the bulletin made of the catalog sections pick[1], pick[2], ... in this order
Bulletin(pick) == Concat([i \in 1..Len(pick) |-> Catalog[pick[i]]])

KFRG == <<"K", "F", "R", "G">>
KJFK == <<"K", "J", "F", "K">>

Stations == {KFRG, KJFK}

\* NbmProductType
ProductTypes == {"nbh", "nbs"}

-----------------------------------------------------------------------------
(* The caller: one bulletin in hand, parsed for one station and product at *)
(* a time, as getNbmForecast does with the text it fetched.                *)

Pending == [pending |-> TRUE]

Init ==
    /\ \E n \in 0..MaxSections :
         \E pick \in [1..n -> 1..Len(Catalog)] : text = Bulletin(pick)
    /\ station \in Stations
    /\ productType \in ProductTypes
    /\ pc = "ready"
    /\ result = Pending
    /\ lastFailure = <<>>
    /\ now = <<>>
    /\ forecast = Pending
    /\ earlier = <<>>
    /\ OthersIdle("parser")

\* const nbmData = parseNbmBulletin(bulletinText, upperIcao, productType)
Parse ==
    /\ pc = "ready"
    /\ result' = parseNbmBulletin(text, station, productType)
    /\ pc' = "done"
    /\ UNCHANGED <<text, station, productType, lastFailure, now, forecast,
                   earlier>>
    /\ OthersUnchanged("parser")

\* The caller asks for another station or product of the same bulletin.
NextRequest ==
    /\ pc = "done"
    /\ \E id \in Stations, pt \in ProductTypes :
         /\ station' = id
         /\ productType' = pt
    /\ pc' = "ready"
    /\ result' = Pending
    /\ UNCHANGED <<text, lastFailure, now, forecast, earlier>>
    /\ OthersUnchanged("parser")

Next == Parse \/ NextRequest

Spec == Init /\ [][Next]_vars

\* The same step, with the history variable lastFailure recording the exit a
\* failed call took and the value it returned.
NextRequestAfter ==
    /\ pc = "done"
    /\ \E id \in Stations, pt \in ProductTypes :
         /\ station' = id
         /\ productType' = pt
    /\ lastFailure' =
         IF result = NullResult
         THEN <<[exit  |-> ParseOutcome(text, station, productType).exit,
                 value |-> result]>>
         ELSE lastFailure
    /\ pc' = "ready"
    /\ result' = Pending
    /\ UNCHANGED <<text, now, forecast, earlier>>
    /\ OthersUnchanged("parser")

NextWithHistory == Parse \/ NextRequestAfter

SpecWithHistory == Init /\ [][NextWithHistory]_vars

\* Calls repeated on one text at different times: the first call is made at
\* the first of these instants and every later call at the second.
CallTimes == <<DateUTC(2026, 0, 1, 0, 0), DateUTC(2027, 5, 1, 0, 0)>>

\* The call, made at the current time.
ParseAt ==
    /\ pc = "ready"
    /\ result' = parseNbmBulletin(text, station, productType)
    /\ now' = <<CallTimes[IF earlier = <<>> THEN 1 ELSE 2]>>
    /\ pc' = "done"
    /\ UNCHANGED <<text, station, productType, lastFailure, forecast,
                   earlier>>
    /\ OthersUnchanged("parser")

\* The next request, the history variable earlier keeping the arguments,
\* time and result of the first call.
NextRequestRecorded ==
    /\ pc = "done"
    /\ \E id \in Stations, pt \in ProductTypes :
         /\ station' = id
         /\ productType' = pt
    /\ earlier' =
         IF earlier = <<>>
         THEN <<[station |-> station, productType |-> productType,
                 at |-> now[1], value |-> result]>>
         ELSE earlier
    /\ pc' = "ready"
    /\ result' = Pending
    /\ now' = <<>>
    /\ UNCHANGED <<text, lastFailure, forecast>>
    /\ OthersUnchanged("parser")

SpecRepeated == Init /\ [][ParseAt \/ NextRequestRecorded]_vars

-----------------------------------------------------------------------------
(* getNbmForecast: the caller of parseNbmBulletin.  The airport lookup and *)
(* the fetch of the bulletin are inputs; the display label `time` of a     *)
(* point and the airport name are left out; timestamps are in seconds.     *)

SecondsPerMinute == 60

\* now - 30 * 60 * 1000, in minutes
PastMargin == 30

\* Mutant of AtOrNull: past the end of the series its last value is repeated.
AtOrLast(series, i) ==
    IF i < Len(series) THEN series[i + 1]
    ELSE IF Len(series) > 0 THEN series[Len(series)] ELSE Null

\* series[i] ?? null, for the 0-based index i
AtOrNull(series, i) == IF i < Len(series) THEN series[i + 1] ELSE Null

\* the object pushed for index i
ForecastPoint(nbmData, i) ==
    [timestamp |-> nbmData.times[i + 1] * SecondsPerMinute,
     wspd      |-> AtOrNull(nbmData.wsp, i),
     wgst      |-> AtOrNull(nbmData.gst, i),
     wdir      |-> AtOrNull(nbmData.wdr, i),
     temp      |-> AtOrNull(nbmData.tmp, i),
     sky       |-> AtOrNull(nbmData.sky, i),
     pop       |-> AtOrNull(nbmData.pop, i)]

\* Mutant of Forecasts: no instant is skipped.
ForecastsOfAllInstants(nbmData, clock, i) ==
    [k \in 1..Len(nbmData.times) |-> ForecastPoint(nbmData, k - 1)]

\* the loop over nbmData.times, from index i
RECURSIVE Forecasts(_, _, _)
Forecasts(nbmData, clock, i) ==
    IF i >= Len(nbmData.times) THEN <<>>
    ELSE (IF nbmData.times[i + 1] < clock - PastMargin
          THEN <<>>
          ELSE <<ForecastPoint(nbmData, i)>>)
           \o Forecasts(nbmData, clock, i + 1)

\* what getNbmForecast returns once the bulletin is parsed
ForecastData(id, nbmData, clock) ==
    IF nbmData = NullResult THEN NullResult
    ELSE IF Len(nbmData.times) = 0 THEN NullResult
    ELSE LET forecasts == Forecasts(nbmData, clock, 0)
         IN  IF Len(forecasts) = 0 THEN NullResult
             ELSE [icao        |-> id,
                   forecasts   |-> forecasts,
                   generatedAt |-> nbmData.times[1] * SecondsPerMinute]

\* the values Date.now() takes: before every bulletin of the catalog, inside
\* the axis of SectionFrgNbh (30 minutes after its second instant), inside
\* the axis of SectionFrgNbs, and after every bulletin
Clock ==
    {DateUTC(2026, 0, 1, 0, 0), DateUTC(2026, 1, 5, 23, 30),
     DateUTC(2027, 0, 1, 4, 0), DateUTC(2027, 5, 1, 0, 0)}

\* getNbmForecast(icao, forecastRange)
GetNbmForecast ==
    /\ pc = "ready"
    /\ \E found \in BOOLEAN, fetched \in BOOLEAN :
         IF ~found \/ ~fetched
         THEN /\ forecast' = NullResult
              /\ UNCHANGED <<result, now>>
         ELSE \E clock \in Clock :
                 /\ result' = parseNbmBulletin(text, station, productType)
                 /\ now' = <<clock>>
                 /\ forecast' = ForecastData(station, result', clock)
    /\ pc' = "returned"
    /\ UNCHANGED <<text, station, productType, lastFailure, earlier>>
    /\ OthersUnchanged("parser")

\* The next request for a forecast, of another station or range.
NextForecastRequest ==
    /\ pc = "returned"
    /\ \E id \in Stations, pt \in ProductTypes :
         /\ station' = id
         /\ productType' = pt
    /\ pc' = "ready"
    /\ result' = Pending
    /\ now' = <<>>
    /\ forecast' = Pending
    /\ UNCHANGED <<text, lastFailure, earlier>>
    /\ OthersUnchanged("parser")

NextForecast == GetNbmForecast \/ NextForecastRequest

SpecForecast == Init /\ [][NextForecast]_vars

-----------------------------------------------------------------------------
(* Notions the properties below are stated with                            *)

Done == pc = "done"
Succeeded == Done /\ result # NullResult
Failed == Done /\ result = NullResult

\* the exit the call on the current request leaves by
Exit == ParseOutcome(text, station, productType).exit

Requested == ProductName(productType)
OtherProduct == IF productType = "nbs" THEN ProductName("nbh") ELSE ProductName("nbs")

\* where the section that is parsed starts (NoMatch when there is none)
StartIdx == StationMatchIndex(text, station, Requested)

\* index i holds the newline in front of a header line, of product P, of a
\* station other than id
ForeignHeaderAfter(s, i, id, P) ==
    /\ CharAt(s, i) = NL
    /\ AnyHeaderAt(s, i + 1, P)
    /\ ~StartsWithAt(s, id, SkipWhile(s, i + 1, Blank))

\* the index of the first such newline after index from (Len(s) when none) for
\* a product in Ps: where the section of station id starting at from is over
ForeignSectionStart(s, from, id, Ps) ==
    LET hits == {i \in (from + 1)..(Len(s) - 1) :
                    \E P \in Ps : ForeignHeaderAfter(s, i, id, P)}
    IN  IF hits = {} THEN Len(s) ELSE Min(hits)

-----------------------------------------------------------------------------
(* C1 *)

\* C1, as claimed: a successful parse for station S takes every value from
\* S's own section: the result is the one obtained from S's section alone, cut
\* where the next section of another station begins, whatever that section's
\* product type.
OwnSectionOnly ==
    Succeeded =>
        result = parseNbmBulletin(
                    Slice(text, StartIdx,
                          ForeignSectionStart(text, StartIdx, station,
                                              {Requested, OtherProduct})),
                    station, productType)

\* C1, amended: a successful parse for station S takes every value from the
\* lines between S's header and the next header line of another station for
\* the requested product type (or the end of the text); a section of the other
\* product type lying in between is read as part of S's section.
OwnProductSectionOnly ==
    Succeeded =>
        /\ EndIdx(text, StartIdx, Requested) <= Len(text)
        /\ result = parseNbmBulletin(
                       Slice(text, StartIdx,
                             ForeignSectionStart(text, StartIdx, station,
                                                 {Requested})),
                       station, productType)

\* A successful parse of a section in the middle of the bulletin: another
\* section lies before it and another station's section of the same product
\* after it.
MiddleSectionParsed ==
    /\ Succeeded
    /\ StartIdx > 0
    /\ ForeignSectionStart(text, StartIdx, station, {Requested}) < Len(text)

-----------------------------------------------------------------------------
(* C2 *)

\* the index of the newline in front of the first header line of product P
\* (of any station) below the line that starts at from; Len(s) when none
NextHeaderLine(s, from, P) ==
    LET hits == {i \in from..(Len(s) - 1) :
                    CharAt(s, i) = NL /\ AnyHeaderAt(s, i + 1, P)}
    IN  IF hits = {} THEN Len(s) ELSE Min(hits)

\* C2: the section of station S and product P starts at the first header
\* line of S and P and ends right before the next header line of product P, of
\* any station, or at the end of the text when none follows; a header line of
\* the other product does not end it.
SectionEndsAtNextHeader ==
    Done /\ StartIdx # NoMatch =>
        /\ LineStart(text, StartIdx)
        /\ StationHeaderAt(text, StartIdx, station, Requested)
        /\ EndIdx(text, StartIdx, Requested)
             = NextHeaderLine(text, StartIdx, Requested)

-----------------------------------------------------------------------------
(* C3 *)

\* some line of s is a header line of station id carrying the marker P
HasHeaderLine(s, id, P) ==
    LET ls == SplitNewline(s)
    IN  \E k \in 1..Len(ls) : StationHeaderAt(ls[k], 0, id, P)

\* the non-blank lines from the first header line of id and P up to the next
\* header line of product P (<<>> when id has no header line for P)
FirstSection(s, id, P) ==
    LET from == StationMatchIndex(s, id, P)
    IN  IF from = NoMatch THEN <<>>
        ELSE FilterNonBlank(
                 SplitNewline(Slice(s, from, NextHeaderLine(s, from, P))))

\* line is an axis line with at least one hour token
AxisWithHours(line) ==
    \/ StartsWith(Trim(line), UTC) /\ UtcHourMatches(Trim(line), 0) # <<>>
    \/ StartsWith(Trim(line), FHR) /\ FhrHourMatches(Trim(line), 0) # <<>>

IsAxisLine(line) == StartsWith(Trim(line), UTC) \/ StartsWith(Trim(line), FHR)

\* the first section of id under P is well formed: at least 3 non-blank lines,
\* an issuance time in the first, and hours on the first axis line below it
WellFormedSection(s, id, P) ==
    LET sec == FirstSection(s, id, P)
    IN  /\ Len(sec) >= 3
        /\ DateMatch(sec[1]) # <<>>
        /\ \E k \in 2..Len(sec) :
             /\ AxisWithHours(sec[k])
             /\ \A j \in 2..(k - 1) : ~IsAxisLine(sec[j])

\* C3: the parse fails whenever no line of the text is a header line of the
\* requested station with the requested product marker, also when the station
\* has a well-formed section under the other product; and it succeeds for the
\* product under which the station's section is well formed.
NotFoundUnderOtherProduct ==
    Done =>
        /\ ~HasHeaderLine(text, station, Requested) => result = NullResult
        /\ WellFormedSection(text, station, Requested) => result # NullResult
        /\ /\ ~HasHeaderLine(text, station, Requested)
           /\ WellFormedSection(text, station, OtherProduct)
           => /\ result = NullResult
              /\ parseNbmBulletin(text, station,
                                  IF productType = "nbs" THEN "nbh" ELSE "nbs")
                   # NullResult

\* The station is asked for under a product it has no header for, while it
\* has a well-formed section under the other product.
OnlyUnderOtherProduct ==
    /\ Done
    /\ ~HasHeaderLine(text, station, Requested)
    /\ WellFormedSection(text, station, OtherProduct)
    /\ text # <<>>

-----------------------------------------------------------------------------
(* C4 *)

\* the located section, as text
LocatedSection == Slice(text, StartIdx, EndIdx(text, StartIdx, Requested))

HasNonBlank(line) == \E k \in 1..Len(line) : line[k] \notin WhiteSpace

\* the lines of the located section that are not blank
NonBlankLines ==
    LET ls == SplitNewline(LocatedSection)
    IN  {k \in 1..Len(ls) : HasNonBlank(ls[k])}

\* the first line of the located section: the header line
HeaderLine == SplitNewline(LocatedSection)[1]

\* C4: when the located section has fewer than 3 non-blank lines, or its
\* first line holds no issuance time M/DD/YYYY HHMM UTC, the call returns null:
\* no timestamps and no field values, never a partial result.
MalformedFailsWhole ==
    Done /\ StartIdx # NoMatch
         /\ (Cardinality(NonBlankLines) < 3 \/ DateMatch(HeaderLine) = <<>>)
    => result = NullResult

\* A section of at least 3 non-blank lines whose header has no issuance time
\* has been parsed.
HeaderWithoutTimeParsed ==
    /\ Done
    /\ StartIdx # NoMatch
    /\ Cardinality(NonBlankLines) >= 3
    /\ DateMatch(HeaderLine) = <<>>

-----------------------------------------------------------------------------
(* C5 *)

\* the non-blank lines of the located section below the header, trimmed
LinesBelowHeader ==
    LET ls == SplitNewline(LocatedSection)
    IN  [k \in {j \in 2..Len(ls) : HasNonBlank(ls[j])} |-> Trim(ls[k])]

\* line holds an hour token: two digits in a row
HasHourToken(line) ==
    \E i \in 0..(Len(line) - 2) :
        CharAt(line, i) \in Digit /\ CharAt(line, i + 1) \in Digit

\* no line below the header starts with UTC or FHR, or the first that does
\* holds no hour token
NoAxisHours ==
    LET below == LinesBelowHeader
        axis  == {k \in DOMAIN below :
                     StartsWith(below[k], UTC) \/ StartsWith(below[k], FHR)}
    IN  axis = {} \/ ~HasHourToken(below[Min(axis)])

\* C5: when no line below the header starts with the UTC or FHR marker, or
\* the first such line holds no hour token, the call returns null; every
\* successful result has at least one instant on its time axis.
EmptyAxisFails ==
    /\ Done /\ StartIdx # NoMatch /\ NoAxisHours => result = NullResult
    /\ Succeeded => Len(result.times) >= 1

\* The call failed on an axis line without an hour token, in a section that
\* has its 3 lines and its issuance time.
AxisWithoutHoursParsed ==
    /\ Done
    /\ Exit = "EmptyAxis"
    /\ \E k \in DOMAIN LinesBelowHeader : StartsWith(LinesBelowHeader[k], UTC)

-----------------------------------------------------------------------------
(* C6 *)

FailureExits == {"StationNotFound", "MalformedSection", "MalformedHeader", "EmptyAxis"}

\* an earlier call on this bulletin failed, by another exit than this call
FailedTwoWays ==
    /\ Failed
    /\ lastFailure # <<>>
    /\ lastFailure[1].exit # Exit

\* C6, as claimed: the value a failed call returns tells which of the four
\* failures occurred, so two calls that failed in different ways returned
\* different values.
FailureKindReported ==
    FailedTwoWays => lastFailure[1].value # result

\* C6, amended: a call that leaves by any of the four failure exits returns
\* null, the same value for all four; the returned value does not tell the
\* caller which failure occurred.
FailuresReturnNull ==
    /\ Done /\ Exit \in FailureExits => result = NullResult
    /\ Done /\ Exit \notin FailureExits => result # NullResult
    /\ lastFailure # <<>> =>
         /\ lastFailure[1].exit \in FailureExits
         /\ lastFailure[1].value = NullResult
    /\ FailedTwoWays => lastFailure[1].value = result

-----------------------------------------------------------------------------
(* C7 *)

\* the lines, hour tokens and issuance time the call works with
Lines == SectionLines(text, StartIdx, Requested)
Hours == ForecastHours(Lines)
Issuance == BaseTime(DateMatch(HeaderLine)[1])
AbsoluteMode == Succeeded /\ ~IsForecastHourRelative(Lines)
RelativeMode == Succeeded /\ IsForecastHourRelative(Lines)

\* h is an hour of the clock
IsClockHour(h) == h \in 0..23

\* instants t and u are on the same calendar day / u is on the day after t's
SameDate(t, u) == CivilFromDays(DayOf(u)) = CivilFromDays(DayOf(t))
NextDate(t, u) == CivilFromDays(DayOf(u)) = CivilFromDays(DayOf(t) + 1)

\* the C7 relation between the instants of the tokens i - 1 and i
DayStep(i) ==
    /\ Hours[i] >= Hours[i - 1] => SameDate(result.times[i - 1], result.times[i])
    /\ Hours[i] < Hours[i - 1] => NextDate(result.times[i - 1], result.times[i])

OnTheHour(i) ==
    /\ GetUTCHours(result.times[i]) = Hours[i]
    /\ result.times[i] % MinutesPerHour = 0

\* C7, as claimed: in absolute mode, for all consecutive hour tokens the
\* instant of the second is on the same calendar day as that of the first when
\* the token did not decrease and on the next calendar day when it did, and
\* every instant has its token as hour and minute 0.
ClockHourAxis ==
    AbsoluteMode =>
        /\ Len(result.times) = Len(Hours)
        /\ \A i \in 2..Len(Hours) : DayStep(i)
        /\ \A i \in 1..Len(Hours) : OnTheHour(i)

\* C7, amended: the same for the tokens that are clock hours (00 to 23): for
\* consecutive tokens both within 00..23, and every instant of a token within
\* 00..23; every instant has minute 0.  So 00 after 23 is one hour later, on
\* the next calendar day.
ClockHourAxisWithin23 ==
    AbsoluteMode =>
        /\ Len(result.times) = Len(Hours)
        /\ \A i \in 2..Len(Hours) :
             IsClockHour(Hours[i - 1]) /\ IsClockHour(Hours[i]) =>
                /\ DayStep(i)
                /\ Hours[i - 1] = 23 /\ Hours[i] = 0 =>
                     result.times[i] = result.times[i - 1] + MinutesPerHour
        /\ \A i \in 1..Len(Hours) :
             /\ IsClockHour(Hours[i]) => OnTheHour(i)
             /\ result.times[i] % MinutesPerHour = 0

\* An axis on which 00 follows 23 has been built in absolute mode.
MidnightCrossed ==
    /\ AbsoluteMode
    /\ \E i \in 2..Len(Hours) :
         /\ Hours[i - 1] = 23
         /\ Hours[i] = 0
         /\ NextDate(result.times[i - 1], result.times[i])

-----------------------------------------------------------------------------
(* C8 *)

\* C8: in relative mode the axis has one instant per 2-3 digit token of the
\* FHR line, in the order of the tokens, and each is the issuance instant of
\* the header, to the minute, plus that many hours.
OffsetsFromIssuance ==
    RelativeMode =>
        /\ Len(result.times) = Len(Hours)
        /\ \A i \in 1..Len(Hours) :
             result.times[i] = Issuance + Hours[i] * MinutesPerHour

\* An issuance time off the hour and a 3-digit offset in relative mode.
OffsetsParsed ==
    /\ RelativeMode
    /\ Issuance % MinutesPerHour # 0
    /\ \E i \in 1..Len(Hours) : Hours[i] >= 100

-----------------------------------------------------------------------------
(* C9 *)

\* C9, as claimed: the time axis of every successful parse never decreases.
AxisNonDecreasing ==
    Succeeded =>
        \A i \in 2..Len(result.times) : result.times[i] >= result.times[i - 1]

\* C9, amended: the axis does not decrease from one instant to the next in
\* absolute mode when the earlier token is a clock hour (00 to 23), and in
\* relative mode when the offset does not decrease; in relative mode it
\* decreases when the offset does.
AxisNonDecreasingOnOrderedHours ==
    /\ AbsoluteMode =>
         \A i \in 2..Len(Hours) :
            IsClockHour(Hours[i - 1]) =>
               result.times[i] >= result.times[i - 1]
    /\ RelativeMode =>
         \A i \in 2..Len(Hours) :
            Hours[i] >= Hours[i - 1] <=> result.times[i] >= result.times[i - 1]

\* An absolute axis whose clock hours go back has been built.
ClockWentBack ==
    /\ AbsoluteMode
    /\ \E i \in 2..Len(Hours) :
         Hours[i] < Hours[i - 1] /\ IsClockHour(Hours[i - 1])

-----------------------------------------------------------------------------
(* C10 *)

Fields == {"wdr", "wsp", "gst", "tmp", "dpt", "sky", "cig", "vis", "pop"}
PackedFields == {"cig", "vis"}

\* the row a field is read from: <<>> when the section has none
FieldLine(f) ==
    CASE f = "wdr" -> RowLine(Lines, Prefix.WDR)
      [] f = "wsp" -> RowLine(Lines, Prefix.WSP)
      [] f = "gst" -> RowLine(Lines, Prefix.GST)
      [] f = "tmp" -> RowLine(Lines, Prefix.TMP)
      [] f = "dpt" -> RowLine(Lines, Prefix.DPT)
      [] f = "sky" -> RowLine(Lines, Prefix.SKY)
      [] f = "cig" -> RowLine(Lines, Prefix.CIG)
      [] f = "vis" -> RowLine(Lines, Prefix.VIS)
      [] f = "pop" -> IF RowLine(Lines, Prefix.P01) # <<>>
                      THEN RowLine(Lines, Prefix.P01)
                      ELSE RowLine(Lines, Prefix.P06)

\* the number of groups of characters of s that white space separates
Groups(s) ==
    Cardinality({i \in 1..Len(s) :
                    /\ s[i] \notin WhiteSpace
                    /\ i = 1 \/ s[i - 1] \in WhiteSpace})

\* no group of s has more than 3 characters
ShortGroups(s) ==
    \A i \in 1..(Len(s) - 3) : \E r \in i..(i + 3) : s[r] \in WhiteSpace

\* The row of field f holds n values: n groups separated by white space, or,
\* for CIG and VIS, either n groups of up to 3 characters separated by spaces
\* up to the end of the line, or n groups of 3 characters run together.
RowHolds(f, n) ==
    /\ FieldLine(f) # <<>>
    /\ LET cells == SliceFrom(FieldLine(f)[1], PrefixColumn)
           packed == TrimStart(cells)
       IN  IF f \notin PackedFields THEN Groups(cells) = n
           ELSE \/ /\ Groups(cells) = n
                   /\ ShortGroups(cells)
                   /\ \A i \in 1..Len(cells) : cells[i] \in WhiteSpace => cells[i] = " "
                   /\ cells[Len(cells)] # " "
                \/ /\ \A i \in 1..Len(packed) : packed[i] \notin WhiteSpace
                   /\ Len(packed) \in (3 * n - 2)..(3 * n)

-----------------------------------------------------------------------------
(* C11 *)

\* getNbmForecast has returned, having parsed the bulletin with success
Returned == pc = "returned"
Assembled == Returned /\ now # <<>> /\ result # NullResult

\* the axis instants that are not more than 30 minutes before now
Upcoming == SelectSeq(result.times, LAMBDA t : t >= now[1] - 30)

\* C11, as claimed: after a successful parse the forecast has one point per
\* axis instant, in axis order, with the instant as timestamp.
PointPerInstant ==
    Assembled =>
        /\ forecast # NullResult
        /\ Len(forecast.forecasts) = Len(result.times)
        /\ \A i \in 1..Len(result.times) :
             forecast.forecasts[i].timestamp = result.times[i] * 60

\* C11, amended: after a successful parse the forecast has one point per axis
\* instant that is not more than 30 minutes before the current time, in axis
\* order, with the instant (in seconds) as timestamp; there is no forecast
\* when no instant is left.  The output is as long as the axis only when no
\* instant is that far in the past.
PointPerUpcomingInstant ==
    Assembled =>
        IF Len(Upcoming) = 0 THEN forecast = NullResult
        ELSE /\ forecast # NullResult
             /\ Len(forecast.forecasts) = Len(Upcoming)
             /\ \A i \in 1..Len(Upcoming) :
                  forecast.forecasts[i].timestamp = Upcoming[i] * 60

\* A forecast that has fewer points than the axis has instants.
PastInstantsSkipped ==
    /\ Assembled
    /\ forecast # NullResult
    /\ Len(forecast.forecasts) < Len(result.times)
    /\ forecast.forecasts[1].timestamp = result.times[2] * 60

-----------------------------------------------------------------------------
(* C12 *)

\* the characters of the row of field f after the row label and the white
\* space that follows it
RowData(f) == TrimStart(SliceFrom(FieldLine(f)[1], PrefixColumn))

\* the row of field f holds more than one value and no white space
RunTogether(f) ==
    /\ FieldLine(f) # <<>>
    /\ Len(RowData(f)) > 3
    /\ \A i \in 1..Len(RowData(f)) : RowData(f)[i] \notin WhiteSpace

\* the k-th chunk of 3 characters of s, and the number of chunks
Chunk(s, k) == SubSeq(s, 3 * k - 2, Min({3 * k, Len(s)}))
Chunks(s) == (Len(s) + 2) \div 3

\* the fields whose values are returned as read
Unscaled == {"wsp", "gst", "tmp", "dpt", "sky", "pop"}

\* C12: in a successful parse, the row of any field whose values run together
\* without white space is decoded as consecutive chunks of 3 characters, one
\* value per chunk.
RunTogetherRowsInChunks ==
    Succeeded =>
        \A f \in Fields :
            RunTogether(f) =>
                /\ Len(result[f]) = Chunks(RowData(f))
                /\ f \in Unscaled =>
                     \A k \in 1..Len(result[f]) :
                        result[f][k] = ToValue(Chunk(RowData(f), k))

-----------------------------------------------------------------------------
(* C13 *)

\* the characters of the row of field f after the row label (with the space
\* in front of it, if any) and the one space that ends it
RowFields(f) ==
    LET line == FieldLine(f)[1]
    IN  SliceFrom(line, IF line[1] = " " THEN 5 ELSE 4)

\* s is a value right-justified in a field of 3 characters
RightJustified(s) ==
    /\ Len(s) = 3
    /\ TrimStart(s) # <<>>
    /\ \A i \in 1..Len(TrimStart(s)) : TrimStart(s)[i] \notin WhiteSpace

\* the row of field f is fixed-width: two or more values, each right-justified
\* in a field of 3 characters, the fields following one another
FixedWidthRow(f) ==
    /\ FieldLine(f) # <<>>
    /\ Len(RowFields(f)) >= 6
    /\ Len(RowFields(f)) % 3 = 0
    /\ \A k \in 1..Chunks(RowFields(f)) : RightJustified(Chunk(RowFields(f), k))

\* what decoding the space-delimited row that lists the values of the
\* fixed-width row of field f yields
ListedValues(f) ==
    [k \in 1..Chunks(RowFields(f)) |-> ToValue(TrimStart(Chunk(RowFields(f), k)))]

\* C13: in a successful parse a fixed-width CIG or VIS row yields the values
\* that the space-delimited row listing the same values yields, also when a
\* value is shorter than 3 characters and padded with spaces.
FixedWidthAsListed ==
    Succeeded =>
        /\ FixedWidthRow("cig") => result.cig = ConvertCig(ListedValues("cig"))
        /\ FixedWidthRow("vis") => result.vis = ConvertVis(ListedValues("vis"))

-----------------------------------------------------------------------------
(* C14 *)

\* the groups of characters of s that white space separates, in order
RECURSIVE GroupsOf(_)
GroupsOf(s) ==
    LET t == TrimStart(s)
        stops == {i \in 1..Len(t) : t[i] \in WhiteSpace}
        n == IF stops = {} THEN Len(t) + 1 ELSE Min(stops)
    IN  IF t = <<>> THEN <<>>
        ELSE <<SubSeq(t, 1, n - 1)>> \o GroupsOf(SubSeq(t, n, Len(t)))

\* the data of the row of field f is groups of up to 3 characters separated by
\* spaces, up to the end of the line
SpacedRow(f) ==
    LET cells == SliceFrom(FieldLine(f)[1], PrefixColumn)
    IN  /\ Groups(cells) >= 1
        /\ ShortGroups(cells)
        /\ \A i \in 1..Len(cells) : cells[i] \in WhiteSpace => cells[i] = " "
        /\ cells[Len(cells)] # " "

\* the fixed-width row of field f starts with a field that is not padded
AlignedRow(f) == FixedWidthRow(f) /\ RowFields(f)[1] # " "

\* The tokens of the row of field f: the groups that white space separates,
\* or, for an aligned fixed-width CIG or VIS row, the values of its fields.
Tokens(f) ==
    IF f \in PackedFields /\ AlignedRow(f)
    THEN [k \in 1..Chunks(RowFields(f)) |-> TrimStart(Chunk(RowFields(f), k))]
    ELSE GroupsOf(SliceFrom(FieldLine(f)[1], PrefixColumn))

\* the row of field f has tokens, and for CIG and VIS one of the two shapes
HasTokens(f) ==
    /\ FieldLine(f) # <<>>
    /\ Len(Tokens(f)) >= 1
    /\ f \in PackedFields => AlignedRow(f) \/ SpacedRow(f)

NG == <<"N", "G">>
IsMissing(token) == token = NG \/ ParseInt(token) = <<-99>>

\* the value the number num, read in the row of field f, is returned as
Scaled(f, num) ==
    CASE num = NaN -> Null
      [] num # NaN /\ f = "wdr" -> <<num[1] * 10>>
      [] num # NaN /\ f = "vis" -> <<num[1], 10>>
      [] num # NaN /\ f = "cig" ->
            IF num[1] \in {888, -88} THEN Null ELSE <<num[1] * 100>>
      [] OTHER -> num

-----------------------------------------------------------------------------
(* C15 *)

\* the raw values of the row of field f: Null for a missing one
RawValues(f) ==
    LET tokens == Tokens(f)
    IN  [k \in 1..Len(tokens) |->
            IF IsMissing(tokens[k]) THEN Null ELSE ParseInt(tokens[k])]

\* C15: in a successful parse a raw ceiling of 888 or -88 is returned as
\* missing, every other raw ceiling v as v x 100, and a missing one as missing.
CeilingInFeet ==
    Succeeded /\ HasTokens("cig") =>
        LET raw == RawValues("cig")
        IN  /\ Len(result.cig) = Len(raw)
            /\ \A k \in 1..Len(raw) :
                 /\ raw[k] = Null => result.cig[k] = Null
                 /\ raw[k] \in {<<888>>, <<-88>>} => result.cig[k] = Null
                 /\ raw[k] \notin {Null, <<888>>, <<-88>>} =>
                      result.cig[k] = <<raw[k][1] * 100>>

\* The raw ceilings -88, 210 and 888 have been converted.
CeilingsConverted ==
    /\ Succeeded /\ HasTokens("cig")
    /\ RawValues("cig") = <<(<<-88>>), <<210>>, <<888>>>>
    /\ result.cig = <<Null, <<21000>>, Null>>

-----------------------------------------------------------------------------
(* C16 *)

\* C16: in a successful parse every raw value v that is not missing is
\* returned as v x 10 for wind direction, as v / 10 for visibility and as v
\* for speed, gust, temperature, dew point, sky cover and precipitation
\* probability; a missing value is returned as missing.
UnitsConverted ==
    Succeeded =>
        \A f \in Fields \ {"cig"} :
            HasTokens(f) =>
                LET raw == RawValues(f)
                IN  /\ Len(result[f]) = Len(raw)
                    /\ \A k \in 1..Len(raw) :
                         /\ raw[k] = Null => result[f][k] = Null
                         /\ raw[k] # Null /\ f = "wdr" =>
                              result[f][k] = <<raw[k][1] * 10>>
                         /\ raw[k] # Null /\ f = "vis" =>
                              /\ result[f][k] # Null
                              /\ result[f][k][1] * 10 = raw[k][1] * result[f][k][2]
                         /\ raw[k] # Null /\ f \in Unscaled =>
                              result[f][k] = raw[k]

\* Directions 34 and 01, visibilities 60 and 55 and a speed of 8 have been
\* converted, beside missing values.
DirectionAndVisibilityConverted ==
    /\ Succeeded
    /\ HasTokens("wdr") /\ RawValues("wdr") = <<(<<34>>), <<1>>, Null>>
    /\ result.wdr = <<(<<340>>), <<10>>, Null>>
    /\ HasTokens("vis") /\ RawValues("vis") = <<(<<60>>), <<55>>, <<100>>>>
    /\ result.vis[1][1] = 6 * result.vis[1][2]
    /\ 2 * result.vis[2][1] = 11 * result.vis[2][2]
    /\ HasTokens("wsp") /\ result.wsp = <<(<<8>>), Null, <<7>>>>

-----------------------------------------------------------------------------
(* C17 *)

\* the series of the row with label prefix, read as values separated by
\* white space: empty when the section has no such row, one missing value
\* when the row holds the label only
RowSeries(prefix) ==
    LET row == RowLine(Lines, prefix)
        tokens == IF row = <<>> THEN <<>>
                  ELSE GroupsOf(SliceFrom(row[1], PrefixColumn))
    IN  IF row = <<>> THEN <<>>
        ELSE IF tokens = <<>> THEN <<Null>>
        ELSE [k \in 1..Len(tokens) |->
                 IF IsMissing(tokens[k]) \/ ParseInt(tokens[k]) = NaN
                 THEN Null ELSE ParseInt(tokens[k])]

\* C17: in a successful parse the precipitation series is the series of the
\* P01 row when there is a P01 row and its series is not empty, and the
\* series of the P06 row otherwise, which is empty when there is no P06 row.
PrecipitationFallback ==
    Succeeded =>
        LET p01 == RowSeries(Prefix.P01)
            p06 == RowSeries(Prefix.P06)
        IN  /\ RowLine(Lines, Prefix.P01) # <<>> /\ Len(p01) > 0
                => result.pop = p01
            /\ ~(RowLine(Lines, Prefix.P01) # <<>> /\ Len(p01) > 0)
                => result.pop = p06
            /\ RowLine(Lines, Prefix.P01) = <<>> /\ RowLine(Lines, Prefix.P06) = <<>>
                => result.pop = <<>>

\* A section with a P06 row and no P01 row has been parsed, and the P06
\* values returned.
SixHourValuesUsed ==
    /\ Succeeded
    /\ RowLine(Lines, Prefix.P01) = <<>>
    /\ RowLine(Lines, Prefix.P06) # <<>>
    /\ result.pop = <<(<<0>>), <<40>>>>

-----------------------------------------------------------------------------
(* C18 *)

\* the located section has a header with an issuance time and an axis line
\* with hours
HeaderAndAxis ==
    /\ Done
    /\ StartIdx # NoMatch
    /\ DateMatch(HeaderLine) # <<>>
    /\ ~NoAxisHours

\* the parse succeeded, with an empty series for every field that has no row,
\* the whole axis, and a series for every field that has a row
AbsentRowsEmpty ==
    /\ Succeeded
    /\ Len(result.times) = Len(Hours)
    /\ \A f \in Fields :
         IF FieldLine(f) = <<>> THEN result[f] = <<>> ELSE Len(result[f]) >= 1

\* C18, as claimed: whatever field rows a section with a header and an axis
\* lacks, the parse succeeds, with an empty series for each of them.
AbsentRowsNeverFail == HeaderAndAxis => AbsentRowsEmpty

\* C18, amended: the same for a section of at least 3 non-blank lines; a
\* section that holds its header and its axis line only fails.
AbsentRowsNeverFailFromThreeLines ==
    /\ HeaderAndAxis /\ Cardinality(NonBlankLines) >= 3 => AbsentRowsEmpty
    /\ HeaderAndAxis /\ Cardinality(NonBlankLines) < 3 => result = NullResult

\* A section without a row for wind direction, ceiling or precipitation has
\* been parsed, its temperature row returned.
ParsedWithoutSomeRows ==
    /\ Succeeded
    /\ FieldLine("wdr") = <<>> /\ result.wdr = <<>>
    /\ FieldLine("cig") = <<>> /\ result.cig = <<>>
    /\ FieldLine("pop") = <<>> /\ result.pop = <<>>
    /\ FieldLine("tmp") # <<>> /\ Len(result.tmp) = Len(result.times)

-----------------------------------------------------------------------------
(* C19 *)

\* the indices of the axis instants that are not more than 30 minutes before
\* now, and the j-th of them
UpcomingIndices == {i \in 1..Len(result.times) : result.times[i] >= now[1] - 30}
UpcomingIndex(j) ==
    CHOOSE i \in UpcomingIndices :
        Cardinality({k \in UpcomingIndices : k <= i}) = j

\* the series each field of a point is taken from
PointFields ==
    [wspd |-> "wsp", wgst |-> "gst", wdir |-> "wdr", temp |-> "tmp",
     sky |-> "sky", pop |-> "pop"]

\* C19: after a successful parse with instants left, the forecast is there
\* and each field of the point of axis index i holds the entry i of its series
\* when the series has one, and missing when the series is shorter or empty.
ShortSeriesGiveMissing ==
    Assembled /\ UpcomingIndices # {} =>
        /\ forecast # NullResult
        /\ Len(forecast.forecasts) = Cardinality(UpcomingIndices)
        /\ \A j \in 1..Len(forecast.forecasts) :
             \A g \in DOMAIN PointFields :
                LET i == UpcomingIndex(j)
                    series == result[PointFields[g]]
                IN  forecast.forecasts[j][g] =
                        IF i <= Len(series) THEN series[i] ELSE Null

\* A forecast from a precipitation series of 2 entries under an axis of 3
\* instants, and an empty speed series: the third point has no precipitation
\* value but the second has, and the third has its temperature.
ShortSeriesAssembled ==
    /\ Assembled /\ forecast # NullResult
    /\ Len(result.times) = 3 /\ Len(result.pop) = 2 /\ Len(result.wsp) = 0
    /\ Len(forecast.forecasts) = 3
    /\ forecast.forecasts[3].pop = Null
    /\ forecast.forecasts[2].pop = result.pop[2]
    /\ forecast.forecasts[3].temp = result.tmp[3]
    /\ forecast.forecasts[3].temp # Null
    /\ forecast.forecasts[1].wspd = Null

-----------------------------------------------------------------------------
(* C20 *)

\* the lines below the header that start with UTC or FHR, in order
AxisLines ==
    LET below == LinesBelowHeader
    IN  SelectSeq([j \in 1..Cardinality(DOMAIN below) |->
                      below[CHOOSE k \in DOMAIN below :
                               Cardinality({i \in DOMAIN below : i <= k}) = j]],
                  LAMBDA line : StartsWith(line, UTC) \/ StartsWith(line, FHR))

\* C20: in a successful parse the axis is built from the first line below the
\* header that starts with FHR or UTC and from no other: as offsets from the
\* issuance time when it starts with FHR, as clock hours when it starts with
\* UTC, whatever the product type asked for.
FirstAxisLineDecides ==
    Succeeded =>
        LET axis == AxisLines
        IN  /\ axis # <<>>
            /\ StartsWith(axis[1], FHR) =>
                 result.times = RelativeTimes(Issuance, FhrHourMatches(axis[1], 0))
            /\ StartsWith(axis[1], UTC) =>
                 result.times = AbsoluteTimes(Issuance, UtcHourMatches(axis[1], 0))

\* Under the hourly product, a section with an FHR line ahead of a UTC line
\* has been parsed, and the axis is made of offsets.
OffsetsUnderHourlyProduct ==
    /\ Succeeded
    /\ productType = "nbh"
    /\ LET axis == AxisLines
       IN  /\ Len(axis) = 2
           /\ StartsWith(axis[1], FHR)
           /\ StartsWith(axis[2], UTC)
    /\ result.times[1] = Issuance + 60

-----------------------------------------------------------------------------
(* C21 *)

\* where the product marker or the preamble of the located header starts
MarkerIdx ==
    SkipWhile(text, SkipWhile(text, StartIdx, Blank) + Len(station), WhiteSpace)

\* the located header has the bare shape: the marker follows the station id
BareHeader == StartIdx # NoMatch /\ StartsWithAt(text, Requested, MarkerIdx)

\* the preamble of the V4.3 bulletins, up to the marker
Preamble == <<"N", "B", "M", " ", "V", "4", ".", "3", " ">>

\* The text with the located header in its other shape: the preamble put in
\* front of a bare marker, or everything from NBM up to the marker taken out.
OtherShape ==
    IF BareHeader
    THEN Slice(text, 0, MarkerIdx) \o Preamble \o SliceFrom(text, MarkerIdx)
    ELSE LET q == Min({i \in (MarkerIdx + 3)..Len(text) :
                          StartsWithAt(text, Requested, i)})
         IN  Slice(text, 0, MarkerIdx) \o SliceFrom(text, q)

\* C21: the header of the requested station is found in both shapes, bare
\* marker and NBM preamble ahead of the marker, and the same section under
\* either header gives the same result: the same axis and the same series.
HeaderShapesAgree ==
    Done /\ StartIdx # NoMatch =>
        /\ StationMatchIndex(OtherShape, station, Requested) = StartIdx
        /\ parseNbmBulletin(OtherShape, station, productType) = result

\* A section parsed under a bare header, and one under a preamble header.
BareHeaderParsed ==
    /\ Succeeded /\ BareHeader
    /\ parseNbmBulletin(OtherShape, station, productType) = result
    /\ Len(result.tmp) >= 1

PreambleHeaderParsed ==
    /\ Succeeded /\ ~BareHeader
    /\ parseNbmBulletin(OtherShape, station, productType) = result

-----------------------------------------------------------------------------
(* C22 *)

\* the call that has returned has the arguments of the first call on the text
SameArguments ==
    /\ Done
    /\ earlier # <<>>
    /\ earlier[1].station = station
    /\ earlier[1].productType = productType

-----------------------------------------------------------------------------
(* isWindDataStale: is the latest observation older than 70 minutes?       *)

\* Stale threshold: 70 minutes in milliseconds
STALE_THRESHOLD_MS == 70 * 60 * 1000

\* Math.max of the timestamps of a non-empty list of observations
\* (an observation is modelled by its timestamp, in seconds)
MaxTimestamp(observations) ==
    CHOOSE t \in {observations[k] : k \in DOMAIN observations} :
        \A k \in DOMAIN observations : observations[k] <= t

\* a mutant: the last observation of the list decides
isWindDataStaleByLast(wd, at) ==
    IF wd = NullResult \/ Len(wd.observations) = 0
    THEN TRUE
    ELSE at - wd.observations[Len(wd.observations)] * 1000
            > STALE_THRESHOLD_MS

isWindDataStale(wd, at) ==
    IF wd = NullResult \/ Len(wd.observations) = 0
    THEN TRUE
    ELSE at - MaxTimestamp(wd.observations) * 1000 > STALE_THRESHOLD_MS

\* observation timestamps, in seconds, and readings of the clock, in ms: the
\* readings lie 70 minutes, and 70 minutes and 1 ms, after the first and the
\* last of the timestamps, and between them
Timestamps == {1000, 2000, 5200}
ClockReadings == {2000000, 5200000, 5200001, 6200000, 9400000, 9400001}
MaxObservations == 3

\* null, or wind data with up to MaxObservations observations
WindDataInputs ==
    {NullResult} \cup
      {[observations |-> o] :
          o \in UNION {[1..n -> Timestamps] : n \in 0..MaxObservations}}

InitStale ==
    /\ windData \in WindDataInputs
    /\ nowMs \in ClockReadings
    /\ stale = <<>>
    /\ OthersIdle("stale")

IsWindDataStale ==
    /\ stale = <<>>
    /\ stale' = <<isWindDataStale(windData, nowMs)>>
    /\ UNCHANGED <<windData, nowMs>>
    /\ OthersUnchanged("stale")

\* the caller checks other wind data, or the same data at another time
NextStaleCheck ==
    /\ stale # <<>>
    /\ windData' \in WindDataInputs
    /\ nowMs' \in ClockReadings
    /\ stale' = <<>>
    /\ OthersUnchanged("stale")

SpecStale == InitStale /\ [][IsWindDataStale \/ NextStaleCheck]_vars

-----------------------------------------------------------------------------
(* C23 *)

StaleChecked == stale # <<>>

HasObservations == windData # NullResult /\ Len(windData.observations) > 0

\* the age in ms of the k-th observation at the time of the check
AgeMs(k) == nowMs - 1000 * windData.observations[k]

IsNewest(k) ==
    \A j \in DOMAIN windData.observations :
        windData.observations[j] <= windData.observations[k]

\* C23: the data is stale exactly when it is null, or has no observations, or
\* its most recent observation, wherever it stands in the list, is more than
\* 70 minutes (4,200,000 ms) old: exactly 70 minutes old is fresh.
StaleExactlyWhenNewestOlderThan70Minutes ==
    StaleChecked =>
        /\ ~HasObservations => stale[1] = TRUE
        /\ HasObservations =>
              \A k \in DOMAIN windData.observations :
                  IsNewest(k) => (stale[1] = (AgeMs(k) > 4200000))

\* The newest observation stands in the middle of the list and is exactly 70
\* minutes old, the last one is older: the data is fresh.
NewestInTheMiddleAtTheBoundary ==
    /\ StaleChecked /\ HasObservations
    /\ Len(windData.observations) = 3
    /\ IsNewest(2) /\ ~IsNewest(3) /\ ~IsNewest(1)
    /\ AgeMs(2) = 4200000
    /\ stale[1] = FALSE

\* One millisecond past the boundary the same kind of data is stale.
NewestJustOverTheBoundary ==
    /\ StaleChecked /\ HasObservations
    /\ IsNewest(1) /\ AgeMs(1) = 4200001
    /\ stale[1] = TRUE

-----------------------------------------------------------------------------
(* normalizePathRoute: the route state of a path /icao/mode/duration       *)

\* An optional string (a path segment that may be undefined) is <<>> when
\* undefined and <<s>> when it is the string s.

DEFAULT_ICAO == <<"K", "C", "D", "W">>
DEFAULT_OBSERVATION_HOURS == 4
DEFAULT_FORECAST_HOURS == 24

OBSERVATION_HOUR_OPTIONS == {1, 2, 4, 6, 12, 24}
FORECAST_HOUR_OPTIONS == {4, 8, 12, 24, 48, 72}

UpperLetters ==
    <<"A", "B", "C", "D", "E", "F", "G", "H", "I", "J", "K", "L", "M",
      "N", "O", "P", "Q", "R", "S", "T", "U", "V", "W", "X", "Y", "Z">>
LowerLetters ==
    <<"a", "b", "c", "d", "e", "f", "g", "h", "i", "j", "k", "l", "m",
      "n", "o", "p", "q", "r", "s", "t", "u", "v", "w", "x", "y", "z">>

\* the letters of s replaced by those of alphabet to, standing at the same
\* place as in alphabet from
Recase(s, from, to) ==
    [i \in 1..Len(s) |->
        IF \E k \in 1..26 : from[k] = s[i]
        THEN to[CHOOSE k \in 1..26 : from[k] = s[i]]
        ELSE s[i]]

\* s.toLowerCase(), s.toUpperCase()
ToLowerCase(s) == Recase(s, UpperLetters, LowerLetters)
ToUpperCase(s) == Recase(s, LowerLetters, UpperLetters)

normalizeIcao(rawIcao) ==
    LET normalized == IF rawIcao = <<>> THEN <<>>
                      ELSE ToUpperCase(Trim(rawIcao[1]))
    IN  IF normalized = <<>> THEN DEFAULT_ICAO ELSE normalized

\* normalized.match(/^(\d+)u$/) for the unit letter u, then parseInt of the
\* group: <<>> without a match
UnitMatch(normalized, u) ==
    IF /\ Len(normalized) >= 2
       /\ normalized[Len(normalized)] = u
       /\ \A i \in 1..(Len(normalized) - 1) : normalized[i] \in Digit
    THEN ParseInt(SubSeq(normalized, 1, Len(normalized) - 1))
    ELSE <<>>

\* a mutant: a number of days is taken as a number of hours
parseDurationHoursDaysAsHours(value) ==
    IF value = <<>> \/ value = <<<<>>>> THEN <<>>
    ELSE LET normalized == ToLowerCase(Trim(value[1]))
             hourMatch == UnitMatch(normalized, "h")
             dayMatch == UnitMatch(normalized, "d")
         IN  IF hourMatch # <<>> THEN hourMatch
             ELSE IF dayMatch # <<>> THEN dayMatch
             ELSE ParseInt(normalized)

\* <<>> for null
parseDurationHours(value) ==
    IF value = <<>> \/ value = <<<<>>>> THEN <<>>
    ELSE LET normalized == ToLowerCase(Trim(value[1]))
             hourMatch == UnitMatch(normalized, "h")
             dayMatch == UnitMatch(normalized, "d")
         IN  IF hourMatch # <<>> THEN hourMatch
             ELSE IF dayMatch # <<>> THEN <<dayMatch[1] * 24>>
             ELSE ParseInt(normalized)

normalizeObservationHours(hours) ==
    IF hours = <<>> \/ hours[1] = 0 THEN DEFAULT_OBSERVATION_HOURS
    ELSE IF hours[1] \in OBSERVATION_HOUR_OPTIONS THEN hours[1]
    ELSE DEFAULT_OBSERVATION_HOURS

normalizeForecastHours(hours) ==
    IF hours = <<>> \/ hours[1] = 0 THEN DEFAULT_FORECAST_HOURS
    ELSE IF hours[1] \in FORECAST_HOUR_OPTIONS THEN hours[1]
    ELSE DEFAULT_FORECAST_HOURS

normalizePathRoute(p) ==
    LET mode == IF p.mode # <<>> /\ ToLowerCase(p.mode[1]) = <<"f", "o", "r", "e", "c", "a", "s", "t">>
                THEN "forecast" ELSE "observation"
        rawHours == parseDurationHours(p.duration)
    IN  [icao |-> normalizeIcao(p.icao),
         mode |-> mode,
         durationHours |-> IF mode = "forecast"
                           THEN normalizeForecastHours(rawHours)
                           ELSE normalizeObservationHours(rawHours)]

\* the paths routed: the icao, mode and duration segments, each undefined,
\* empty or a string
Params ==
    [icao :
         {<<>>,
          <<<<>>>>,
          <<<<" ", " ">>>>,
          <<<<"k", "t", "e", "b">>>>,
          <<<<" ", "K", "f", "r", "g", " ">>>>},
     mode :
         {<<>>,
          <<<<>>>>,
          <<<<"f", "o", "r", "e", "c", "a", "s", "t">>>>,
          <<<<"F", "O", "R", "E", "C", "A", "S", "T">>>>,
          <<<<"F", "o", "r", "e", "c", "a", "s", "t">>>>,
          <<<<"o", "b", "s", "e", "r", "v", "a", "t", "i", "o", "n">>>>,
          <<<<"f", "o", "o">>>>,
          <<<<" ", "f", "o", "r", "e", "c", "a", "s", "t">>>>,
          <<<<"f", "o", "r", "e", "c", "a", "s", "t", "s">>>>},
     duration :
         {<<>>,
          <<<<>>>>,
          <<<<"4", "h">>>>,
          <<<<"8", "h">>>>,
          <<<<"4", "8", "H">>>>,
          <<<<" ", "6", "h", " ">>>>,
          <<<<"0", "h">>>>,
          <<<<"7", "2", "h">>>>,
          <<<<"5", "h">>>>,
          <<<<"2", "d">>>>,
          <<<<"1", "D">>>>,
          <<<<"3", "d">>>>,
          <<<<"0", "3", "d">>>>,
          <<<<"0", "d">>>>,
          <<<<"4", "d">>>>,
          <<<<"4">>>>,
          <<<<"2", "4">>>>,
          <<<<"1", "2", "x">>>>,
          <<<<"9", "9", "9">>>>,
          <<<<"0">>>>,
          <<<<"-", "4">>>>,
          <<<<"+", "8">>>>,
          <<<<"1", ".", "5", "d">>>>,
          <<<<"h">>>>,
          <<<<"d">>>>,
          <<<<"a", "b", "c">>>>,
          <<<<"4", "h", "d">>>>,
          <<<<"h", "4">>>>}]

InitRoute ==
    /\ params \in Params
    /\ route = Pending
    /\ OthersIdle("route")

NormalizePathRoute ==
    /\ route = Pending
    /\ route' = normalizePathRoute(params)
    /\ UNCHANGED params
    /\ OthersUnchanged("route")

\* the next path is routed
NextPath ==
    /\ route # Pending
    /\ params' \in Params
    /\ route' = Pending
    /\ OthersUnchanged("route")

SpecRoute == InitRoute /\ [][NormalizePathRoute \/ NextPath]_vars

-----------------------------------------------------------------------------
(* C24 *)

Routed == route # Pending

\* the mode segment spells forecast, in letters of either case
SpellsForecast ==
    /\ params.mode # <<>>
    /\ Len(params.mode[1]) = 8
    /\ \A i \in 1..8 :
          LET k == CHOOSE j \in 1..26 : LowerLetters[j] = <<"f", "o", "r", "e", "c", "a", "s", "t">>[i]
          IN  params.mode[1][i] \in {LowerLetters[k], UpperLetters[k]}

Options(mode) ==
    IF mode = "forecast" THEN {4, 8, 12, 24, 48, 72} ELSE {1, 2, 4, 6, 12, 24}

Fallback(mode) == IF mode = "forecast" THEN 24 ELSE 4

\* the duration segment without the white space around it, in lower case
Duration == IF params.duration = <<>> THEN <<>> ELSE ToLowerCase(Trim(params.duration[1]))

\* the number of digits the duration begins with
LeadingDigits == SkipWhile(Duration, 0, Digit)

\* the duration is a number N, Nh or Nd
PlainDuration ==
    /\ LeadingDigits >= 1
    /\ \/ Len(Duration) = LeadingDigits
       \/ Len(Duration) = LeadingDigits + 1 /\ Duration[Len(Duration)] \in {"h", "d"}

\* the hours a plain duration stands for: N x 24 for Nd
PlainHours ==
    LET n == DigitsVal(Duration, 0, LeadingDigits)
    IN  IF Duration[Len(Duration)] = "d" THEN n * 24 ELSE n

\* the duration begins with neither a digit nor a sign: it cannot be parsed
HopelessDuration == CharAt(Duration, 0) \notin Digit \cup {"-", "+"}

\* C24: the mode is forecast when the mode segment spells forecast in either
\* case and observation otherwise; the hours are in the option set of the
\* mode, are those of a duration N, Nh or Nd (N x 24) if they are in the set
\* and the fallback of the mode (24 or 4) if not, or if the duration is
\* missing or cannot be parsed; an empty icao becomes KCDW.
RouteAlwaysNormalized ==
    Routed =>
        /\ route.mode = (IF SpellsForecast THEN "forecast" ELSE "observation")
        /\ route.durationHours \in Options(route.mode)
        /\ PlainDuration =>
              route.durationHours =
                  IF PlainHours \in Options(route.mode) THEN PlainHours
                  ELSE Fallback(route.mode)
        /\ HopelessDuration => route.durationHours = Fallback(route.mode)
        /\ (params.icao = <<>> \/ Trim(params.icao[1]) = <<>>)
              => route.icao = <<"K", "C", "D", "W">>
        /\ (params.icao # <<>> /\ Trim(params.icao[1]) # <<>>)
              => route.icao = ToUpperCase(Trim(params.icao[1]))

\* A forecast path in mixed case with a duration in days and an empty icao.
DaysOfForecastRouted ==
    /\ Routed
    /\ params.mode = <<<<"F", "o", "r", "e", "c", "a", "s", "t">>>>
    /\ params.duration = <<<<"2", "d">>>>
    /\ params.icao = <<<<>>>>
    /\ route = [icao |-> <<"K", "C", "D", "W">>, mode |-> "forecast", durationHours |-> 48]

\* A duration outside the option set of the mode falls back.
OutOfSetFallsBack ==
    /\ Routed
    /\ params.mode = <<<<"f", "o", "o">>>>
    /\ params.duration = <<<<"8", "h">>>>
    /\ route.mode = "observation" /\ route.durationHours = 4

-----------------------------------------------------------------------------
(* WindPlot: handleAirportChange and the fetches it starts                 *)

\* A nullable object is <<>> when null and <<o>> when it is the object o.
\* Wind data is [icao, fresh]: whose it is, and whether isWindDataStale finds
\* it fresh at present.  An airport and a METAR are modelled by their icao.

NewIcaos == {<<"k", "f", "r", "g">>, <<"K", "J", "F", "K">>}
Icaos == {ToUpperCase(a) : a \in NewIcaos}

\* the requests made are bounded
MaxRequests == 3

WindOf(x) == {<<>>} \cup {<<[icao |-> x, fresh |-> f]>> : f \in BOOLEAN}

\* what getAirportFullData may resolve to for airport x
FullDataOf(x) ==
    [airport : {<<>>, <<x>>}, windData : WindOf(x), metar : {<<>>, <<x>>}]

\* !isWindDataStale(windData) for wind data that is not null
IsFresh(wind) == wind # <<>> /\ wind[1].fresh
IsStale(wind) == wind # <<>> /\ ~wind[1].fresh

\* the wind data a time later, when it has become stale
Aged(wind) ==
    IF wind = <<>> THEN <<>> ELSE <<[wind[1] EXCEPT !.fresh = FALSE]>>

InitAirport ==
    /\ requestIdRef = 0
    /\ icao \in Icaos
    /\ airport = <<icao>>
    /\ data \in {<<>>, <<[icao |-> icao, fresh |-> TRUE]>>}
    /\ metar = <<icao>>
    /\ metarIcao = icao
    /\ loading = FALSE
    /\ error = <<>>
    /\ cache \in {c \in [Icaos -> {<<>>} \cup {<<d>> : d \in UNION {FullDataOf(x) : x \in Icaos}}] :
                     \A x \in Icaos :
                        c[x] # <<>> => /\ c[x][1] \in FullDataOf(x)
                                       /\ c[x][1].airport # <<>>
                                       /\ c[x][1].metar # <<>>}
    /\ pending = {}
    /\ discarded = {}
    /\ OthersIdle("airport")

\* the handler up to its first await, or to its return when the cache is fresh
HandleAirportChange ==
    /\ requestIdRef < MaxRequests
    /\ \E newIcao \in NewIcaos :
          LET upperIcao == ToUpperCase(newIcao)
              requestId == requestIdRef + 1
              prefetched == cache[upperIcao]
              hasFreshCache == prefetched # <<>> /\ IsFresh(prefetched[1].windData)
              hasStaleCache == prefetched # <<>> /\ IsStale(prefetched[1].windData)
          IN  /\ requestIdRef' = requestId
              /\ icao' = upperIcao
              /\ error' = <<>>
              /\ IF hasFreshCache
                 THEN /\ airport' = prefetched[1].airport
                      /\ data' = prefetched[1].windData
                      /\ metar' = prefetched[1].metar
                      /\ metarIcao' = upperIcao
                      /\ UNCHANGED <<loading, pending>>
                 ELSE /\ data' = <<>>
                      /\ metar' = <<>>
                      /\ loading' = TRUE
                      /\ pending' = pending \cup
                            {[requestId |-> requestId, upperIcao |-> upperIcao,
                              hasStaleCache |-> hasStaleCache, fetches |-> 1]}
                      /\ UNCHANGED <<airport, metarIcao>>
    /\ UNCHANGED <<cache, discarded>>
    /\ OthersUnchanged("airport")

\* a mutant: every result is taken for that of the current request
IsCurrentAlways(requestId) == TRUE

\* requestIdRef.current === requestId
IsCurrent(requestId) == requestIdRef = requestId

\* the handler of request r from the check of the request id to its end
Settle(r, fullData) ==
    IF ~IsCurrent(r.requestId)
    THEN /\ discarded' = discarded \cup {r}
         /\ UNCHANGED <<airport, data, metar, metarIcao, loading, error, cache>>
    ELSE /\ airport' = fullData.airport
         /\ metar' = fullData.metar
         /\ metarIcao' = r.upperIcao
         /\ IF fullData.windData # <<>>
            THEN /\ data' = fullData.windData
                 /\ cache' = [cache EXCEPT ![r.upperIcao] = <<fullData>>]
                 /\ UNCHANGED error
            ELSE /\ error' = <<"Failed to fetch data for this airport">>
                 /\ UNCHANGED <<data, cache>>
         /\ loading' = FALSE
         /\ UNCHANGED discarded

\* a fetch of a pending request resolves and its handler runs on: to a second,
\* forced fetch if the data is stale and the fetch was not forced, else to its
\* end
FetchResolves ==
    /\ \E r \in pending : \E fullData \in FullDataOf(r.upperIcao) :
          IF r.fetches = 1 /\ IsStale(fullData.windData) /\ ~r.hasStaleCache
          THEN /\ pending' = (pending \ {r}) \cup {[r EXCEPT !.fetches = 2]}
               /\ UNCHANGED <<airport, data, metar, metarIcao, loading, error,
                              cache, discarded>>
          ELSE /\ pending' = pending \ {r}
               /\ Settle(r, fullData)
    /\ UNCHANGED <<requestIdRef, icao>>
    /\ OthersUnchanged("airport")

\* time passes: the wind data held becomes more than 70 minutes old
Expire ==
    /\ IsFresh(data) \/ \E x \in Icaos : cache[x] # <<>> /\ IsFresh(cache[x][1].windData)
    /\ data' = Aged(data)
    /\ cache' = [x \in Icaos |->
                    IF cache[x] = <<>> THEN <<>>
                    ELSE <<[cache[x][1] EXCEPT !.windData = Aged(@)]>>]
    /\ UNCHANGED <<requestIdRef, icao, airport, metar, metarIcao, loading, error,
                   pending, discarded>>
    /\ OthersUnchanged("airport")

SpecAirport == InitAirport /\ [][HandleAirportChange \/ FetchResolves \/ Expire]_vars

-----------------------------------------------------------------------------
(* C25 *)

\* what is displayed, and the cache
display == <<icao, airport, data, metar, metarIcao, cache>>

\* the result of superseded request r arrives in this step
Arrives(r) == r \in pending /\ r.requestId # requestIdRef /\ r \notin pending'

\* what is displayed belongs to the airport selected last
ShowsSelected ==
    /\ airport # <<>> => airport[1] = icao
    /\ data # <<>> => data[1].icao = icao
    /\ metar # <<>> => metar[1] = icao

\* C25: the result of a request that was superseded while its fetch was
\* pending changes neither the displayed airport, wind data and METAR nor the
\* cache when it arrives, and when no fetch is pending what is displayed is
\* that of the airport selected last.
SupersededResultDiscarded ==
    /\ [][\A r \in pending : Arrives(r) => UNCHANGED display]_vars
    /\ [](pending = {} => ShowsSelected)

\* The result for one airport was discarded after another airport had been
\* selected and fetched, and the other airport's data is displayed.
DiscardedAfterOtherAirport ==
    /\ pending = {}
    /\ \E r \in discarded : r.upperIcao # icao
    /\ data # <<>> /\ data[1].icao = icao
    /\ loading = FALSE

-----------------------------------------------------------------------------
(* C26 *)

\* C26: when no fetch is pending, the loading flag is false.
NotLoadingWhenAllResolved == pending = {} => loading = FALSE

-----------------------------------------------------------------------------
(* fetchWithTimeoutAndRetry                                                *)

MAX_RETRIES == 3

\* the largest number of retries a caller passes
MaxRetriesArg == 4

\* a mutant: the backoff grows by 500 ms an attempt
BackoffLinear(k) == 500 * (k + 1)

\* 500 * Math.pow(2, attempt)
Backoff(k) == 500 * 2^k

\* the call: retries is the argument, or MAX_RETRIES when it is left out
InitFetch ==
    /\ retries \in {MAX_RETRIES} \cup 0..MaxRetriesArg
    /\ attempt = 0
    /\ fetchPc = "loop"
    /\ lastError = <<>>
    /\ trace = <<>>
    /\ outcome = Pending
    /\ OthersIdle("fetch")

\* attempt < retries: the body of the loop is entered and fetch is called
StartAttempt ==
    /\ fetchPc = "loop" /\ attempt < retries
    /\ fetchPc' = "fetching"
    /\ UNCHANGED <<retries, attempt, lastError, trace, outcome>>
    /\ OthersUnchanged("fetch")

\* the fetch resolves to a response, which is returned
AttemptResolves ==
    /\ fetchPc = "fetching"
    /\ \E status \in {200, 404, 500} :
          /\ outcome' = [returned |-> [status |-> status, attempt |-> attempt]]
          /\ trace' = Append(trace, [event |-> "fetch", attempt |-> attempt,
                                    outcome |-> outcome'.returned])
    /\ fetchPc' = "returned"
    /\ UNCHANGED <<retries, attempt, lastError>>
    /\ OthersUnchanged("fetch")

\* the fetch rejects, by the abort of the timeout or otherwise; the backoff
\* is awaited unless this was the last attempt
AttemptFails ==
    /\ fetchPc = "fetching"
    /\ \E name \in {"AbortError", "TypeError"} :
          /\ lastError' = <<[name |-> name, attempt |-> attempt]>>
          /\ trace' = Append(trace, [event |-> "fetch", attempt |-> attempt,
                                    outcome |-> lastError'[1]])
    /\ IF attempt < retries - 1
       THEN fetchPc' = "waiting" /\ UNCHANGED attempt
       ELSE fetchPc' = "loop" /\ attempt' = attempt + 1
    /\ UNCHANGED <<retries, outcome>>
    /\ OthersUnchanged("fetch")

\* the timer of the backoff fires
BackoffEnds ==
    /\ fetchPc = "waiting"
    /\ trace' = Append(trace, [event |-> "wait", ms |-> Backoff(attempt)])
    /\ attempt' = attempt + 1
    /\ fetchPc' = "loop"
    /\ UNCHANGED <<retries, lastError, outcome>>
    /\ OthersUnchanged("fetch")

\* the loop is left: throw lastError || new Error('Fetch failed after retries')
ThrowLastError ==
    /\ fetchPc = "loop" /\ attempt >= retries
    /\ outcome' = [thrown |-> IF lastError # <<>> THEN lastError[1]
                              ELSE [name |-> "Error", attempt |-> -1]]
    /\ fetchPc' = "thrown"
    /\ UNCHANGED <<retries, attempt, lastError, trace>>
    /\ OthersUnchanged("fetch")

SpecFetch ==
    InitFetch /\ [][StartAttempt \/ AttemptResolves \/ AttemptFails
                      \/ BackoffEnds \/ ThrowLastError]_vars

-----------------------------------------------------------------------------
(* C27 *)

Fetches == {i \in DOMAIN trace : trace[i].event = "fetch"}
Waits == {i \in DOMAIN trace : trace[i].event = "wait"}

IsResponse(i) == i \in Fetches /\ "status" \in DOMAIN trace[i].outcome
IsFailure(i) == i \in Fetches /\ "name" \in DOMAIN trace[i].outcome

\* C27: at most retries fetches are made; a fetch that resolves is the last
\* thing the function does and its response, of whatever status, is what is
\* returned; a wait follows the failed attempt k exactly when k is not the
\* last attempt allowed, and lasts 500 x 2^k ms; when the function throws,
\* every attempt allowed has failed and the error thrown is that of the last.
AttemptsBoundedAndBackedOff ==
    /\ Cardinality(Fetches) <= retries
    /\ \A i \in Fetches : trace[i].attempt = Cardinality({j \in Fetches : j < i})
    /\ \A i \in DOMAIN trace :
          IsResponse(i) =>
              /\ i = Len(trace)
              /\ fetchPc = "returned" /\ outcome.returned = trace[i].outcome
    /\ fetchPc = "returned" => IsResponse(Len(trace))
    /\ \A i \in Waits :
          /\ i > 1 /\ IsFailure(i - 1)
          /\ trace[i - 1].attempt < retries - 1
          /\ (trace[i - 1].attempt = 0 => trace[i].ms = 500)
          /\ (trace[i - 1].attempt = 1 => trace[i].ms = 1000)
          /\ (trace[i - 1].attempt = 2 => trace[i].ms = 2000)
          /\ (trace[i - 1].attempt = 3 => trace[i].ms = 4000)
    /\ \A i \in DOMAIN trace :
          (IsFailure(i) /\ trace[i].attempt < retries - 1 /\ i < Len(trace))
              => i + 1 \in Waits
    /\ (fetchPc = "thrown" /\ retries >= 1) =>
          /\ Cardinality(Fetches) = retries
          /\ \A i \in Fetches : IsFailure(i)
          /\ outcome.thrown = trace[Len(trace)].outcome
          /\ outcome.thrown.attempt = retries - 1

\* The default three attempts have failed: two waits, none after the last.
AllDefaultAttemptsFailed ==
    /\ fetchPc = "thrown" /\ retries = 3
    /\ Cardinality(Fetches) = 3
    /\ Cardinality(Waits) = 2
    /\ trace[Len(trace)].event = "fetch"
    /\ trace[2].ms = 500 /\ trace[4].ms = 1000

\* The second attempt resolved to an error status and was returned.
SecondAttemptReturned ==
    /\ fetchPc = "returned"
    /\ Cardinality(Fetches) = 2 /\ retries = 3
    /\ outcome.returned.status = 500

-----------------------------------------------------------------------------
(* useHorizontalSwipeLock: the touch listeners of the element              *)

\* clientX and clientY of a touch lie in 0..MaxCoord
MaxCoord == 8

\* Math.abs
Abs(n) == IF n < 0 THEN -n ELSE n

\* a mutant: equal travel in both directions counts as vertical
LockedDirectionStrict(dx, dy) == IF dx > dy THEN "horizontal" ELSE "vertical"

\* dx >= dy ? 'horizontal' : 'vertical'
LockedDirection(dx, dy) == IF dx >= dy THEN "horizontal" ELSE "vertical"

\* the effect has run: the listeners are attached and no touch was seen
InitSwipe ==
    /\ startX = 0
    /\ startY = 0
    /\ direction = "null"
    /\ touch = [type |-> "none"]
    /\ prevented = FALSE
    /\ OthersIdle("swipe")

OnTouchStart ==
    /\ \E x \in 0..MaxCoord, y \in 0..MaxCoord :
          /\ touch' = [type |-> "touchstart", clientX |-> x, clientY |-> y]
          /\ startX' = x
          /\ startY' = y
    /\ direction' = "null"
    /\ prevented' = FALSE
    /\ OthersUnchanged("swipe")

OnTouchMove ==
    /\ \E x \in 0..MaxCoord, y \in 0..MaxCoord :
          LET dx == Abs(x - startX)
              dy == Abs(y - startY)
          IN  /\ touch' = [type |-> "touchmove", clientX |-> x, clientY |-> y]
              /\ direction' =
                    IF direction # "null" THEN direction
                    ELSE IF dx + dy < 8 THEN "null"
                    ELSE LockedDirection(dx, dy)
    /\ prevented' = (direction' = "horizontal")
    /\ UNCHANGED <<startX, startY>>
    /\ OthersUnchanged("swipe")

SpecSwipe == InitSwipe /\ [][OnTouchStart \/ OnTouchMove]_vars

-----------------------------------------------------------------------------
(* C28 *)

\* the distances of the touch handled last from the start of the gesture
TravelX == Abs(touch.clientX - startX)
TravelY == Abs(touch.clientY - startY)

\* the step handles a touchmove that leaves the direction as it was
SameDirectionAfterMove == touch'.type = "touchmove" /\ direction' = direction

\* the step handles a touchmove that decides the direction
DirectionDecided ==
    /\ touch'.type = "touchmove"
    /\ direction = "null" /\ direction' # "null"
    /\ Abs(touch'.clientX - startX) + Abs(touch'.clientY - startY) >= 8
    /\ (direction' = "horizontal") =
          (Abs(touch'.clientX - startX) >= Abs(touch'.clientY - startY))

\* the step handles a touchstart: a new gesture, its direction undetermined
GestureStarted == touch'.type = "touchstart" /\ direction' = "null"

\* C28: a touchstart leaves the direction undetermined; a touchmove decides it
\* only if it is undetermined and the touch is at least 8 px (dx + dy) from
\* the start, horizontal if dx >= dy and vertical otherwise, and it stays
\* undetermined while the touch is nearer; a decided direction is kept by
\* every touchmove; preventDefault is called on a touchmove exactly when the
\* direction is then horizontal.
DirectionLockedOncePerGesture ==
    /\ [][/\ GestureStarted \/ SameDirectionAfterMove \/ DirectionDecided
          /\ (touch'.type = "touchmove" /\ direction = "null"
                /\ Abs(touch'.clientX - startX) + Abs(touch'.clientY - startY) >= 8)
                => direction' # "null"
          /\ prevented' = (touch'.type = "touchmove" /\ direction' = "horizontal")
         ]_vars
    /\ [](direction \in {"null", "horizontal", "vertical"})
    /\ [](direction = "null" => ~prevented)

\* A touchmove mostly downwards is prevented: the direction was locked to
\* horizontal earlier in the gesture.
VerticalMoveUnderHorizontalLock ==
    /\ touch.type = "touchmove"
    /\ direction = "horizontal" /\ prevented
    /\ TravelY > TravelX

\* A touchmove 7 px from the start leaves the direction undetermined.
ShortMoveUndetermined ==
    /\ touch.type = "touchmove"
    /\ TravelX + TravelY = 7
    /\ direction = "null" /\ ~prevented

\* Equal travel of 4 px each way locks to horizontal.
DiagonalLocksHorizontal ==
    /\ touch.type = "touchmove"
    /\ TravelX = 4 /\ TravelY = 4
    /\ direction = "horizontal"

-----------------------------------------------------------------------------
(* getNbmBulletinUrl: the URL of the bulletin of the previous hour         *)

\* n.toString() of an integer n >= 0
RECURSIVE NumberToString(_)
NumberToString(n) ==
    IF n < 10 THEN <<SubSeq(<<"0", "1", "2", "3", "4", "5", "6", "7", "8", "9">>,
                            n + 1, n + 1)[1]>>
    ELSE NumberToString(n \div 10) \o NumberToString(n % 10)

\* s.padStart(2, '0')
PadStart2(s) == IF Len(s) < 2 THEN <<"0">> \o s ELSE s

\* the URL built when new Date() is the instant t, in minutes
getNbmBulletinUrl(pt, t) ==
    LET hour == (GetUTCHours(t) - 1 + 24) % 24
        hourStr == PadStart2(NumberToString(hour))
        year == GetUTCFullYear(t)
        month == PadStart2(NumberToString(GetUTCMonth(t) + 1))
        day == PadStart2(NumberToString(GetUTCDate(t)))
        dateStr == NumberToString(year) \o month \o day
        productFile == IF pt = "nbh" THEN <<"b", "l", "e", "n", "d", "_", "n", "b", "h", "t", "x">>
                       ELSE <<"b", "l", "e", "n", "d", "_", "n", "b", "s", "t", "x">>
        base ==
            <<"h", "t", "t", "p", "s", ":", "/", "/", "n", "o", "m", "a", "d", "s",
              ".", "n", "c", "e", "p", ".", "n", "o", "a", "a", ".", "g", "o", "v",
              "/", "p", "u", "b", "/", "d", "a", "t", "a", "/", "n", "c", "c", "f",
              "/", "c", "o", "m", "/", "b", "l", "e", "n", "d", "/", "p", "r", "o",
              "d", "/", "b", "l", "e", "n", "d", ".">>
    IN  base \o dateStr \o <<"/">> \o hourStr \o <<"/", "t", "e", "x", "t", "/">>
          \o productFile \o <<".", "t">> \o hourStr \o <<"z">>

\* the instants of the calls: every half hour of the two days around the
\* turn of a year and around the end of a February
CallInstants ==
    {DateUTC(2026, 11, 31, 0, 0) + 30 * k : k \in 0..95}
      \cup {DateUTC(2027, 1, 28, 0, 0) + 30 * k : k \in 0..95}

InitUrl ==
    /\ urlProduct \in ProductTypes
    /\ urlNow \in CallInstants
    /\ url = <<>>
    /\ OthersIdle("url")

GetNbmBulletinUrl ==
    /\ url = <<>>
    /\ url' = getNbmBulletinUrl(urlProduct, urlNow)
    /\ UNCHANGED <<urlProduct, urlNow>>
    /\ OthersUnchanged("url")

\* the next bulletin is asked for, at another time
NextUrlCall ==
    /\ url # <<>>
    /\ urlProduct' \in ProductTypes
    /\ urlNow' \in CallInstants
    /\ url' = <<>>
    /\ OthersUnchanged("url")

SpecUrl == InitUrl /\ [][GetNbmBulletinUrl \/ NextUrlCall]_vars

-----------------------------------------------------------------------------
(* C29 *)

\* the date directory (YYYYMMDD) and the hour directory (HH) of the URL
DateDirectory == Slice(url, 64, 72)
HourDirectory == Slice(url, 73, 75)

\* the hour of the file suffix tHHz
SuffixHour == Slice(url, Len(url) - 3, Len(url) - 1)

\* the issuance instant the URL names
NamedIssuance ==
    DateUTC(DigitsVal(DateDirectory, 0, 4), DigitsVal(DateDirectory, 4, 6) - 1,
            DigitsVal(DateDirectory, 6, 8), DigitsVal(HourDirectory, 0, 2), 0)

\* the start of the hour before the current one
PreviousHour == (urlNow \div 60) * 60 - 60

\* C29: the URL names the issuance of the hour before the current UTC hour,
\* by its date and its hour, in the hour directory and in the file suffix: an
\* issuance that is never later than now.
UrlNamesPreviousHour ==
    url # <<>> =>
        /\ SuffixHour = HourDirectory
        /\ NamedIssuance = PreviousHour
        /\ NamedIssuance <= urlNow

\* The same, for calls made after the first hour of the UTC day.
UrlNamesPreviousHourAfterOne ==
    (url # <<>> /\ GetUTCHours(urlNow) >= 1) =>
        /\ SuffixHour = HourDirectory
        /\ NamedIssuance = PreviousHour
        /\ NamedIssuance <= urlNow

-----------------------------------------------------------------------------
(* C30 *)

\* the start of the hour of the issuance
IssuanceHourStart == (Issuance \div MinutesPerHour) * MinutesPerHour

NotBeforeIssuanceHour ==
    \A i \in 1..Len(result.times) : result.times[i] >= IssuanceHourStart

\* C30, as claimed: in absolute mode the first instant of the axis is on the
\* date of the issuance when the first hour token is not smaller than the hour
\* of the issuance and on the day after when it is smaller, and no instant of
\* the axis is earlier than the start of the hour of the issuance.
FirstInstantDatedByToken ==
    AbsoluteMode =>
        /\ Hours[1] >= GetUTCHours(Issuance) => SameDate(Issuance, result.times[1])
        /\ Hours[1] < GetUTCHours(Issuance) => NextDate(Issuance, result.times[1])
        /\ NotBeforeIssuanceHour

\* C30, amended: the same for a first token that is a clock hour (00 to 23); the
\* instant of a first token of 24 or more is on a later day than the issuance,
\* and in every case no instant is earlier than the start of the hour of the
\* issuance.
FirstInstantDatedByClockHour ==
    AbsoluteMode =>
        /\ (IsClockHour(Hours[1]) /\ Hours[1] >= GetUTCHours(Issuance))
              => SameDate(Issuance, result.times[1])
        /\ Hours[1] < GetUTCHours(Issuance) => NextDate(Issuance, result.times[1])
        /\ ~IsClockHour(Hours[1]) => DayOf(result.times[1]) > DayOf(Issuance)
        /\ NotBeforeIssuanceHour

\* The first token is smaller than the hour of the issuance: the axis begins on
\* the day after, later than the issuance.
AxisBeginsNextDay ==
    /\ AbsoluteMode
    /\ Hours[1] < GetUTCHours(Issuance)
    /\ NextDate(Issuance, result.times[1])
    /\ result.times[1] > Issuance

=============================================================================
